---- MODULE Spec2Model ----
(***************************************************************************)
(* Model of npm-dependencies-mcp: the dependency analysis server           *)
(* (src/src/mcp-npm-server.js) with package discovery, the built-in graph  *)
(* and cycle detection, the version report, the query router, the result   *)
(* cache and the external commands; and of the nx tools: analyzeProject,   *)
(* getProjects, the directory scan, fetchLatestVersions and                *)
(* identifyDirectDependencies of the vulnerability scanner.                *)
(***************************************************************************)
EXTENDS Integers, Sequences, FiniteSets, TLC

VARIABLES
    tree,           \* the package.json declarations on disk: records [owner, kind, name, version]
    unreadable,     \* packages whose package.json is missing or does not parse
    pc,             \* position of the running operation
    madgeRun,       \* outcome of `npx madge` in this run ("none" before it ran)
    cruiserRun,     \* outcome of `npx dependency-cruiser` in this run
    adjacencyList,  \* findCircularDependencies: node -> list of edge targets
    nodes,          \* findCircularDependencies: start nodes still to visit
    stack,          \* call stack of dfs(current, pathArr): frames [current, pathArr, i]
    visited,        \* findCycles: the visited set of the current start node
    path,           \* findCycles: the set of nodes on the current path
    cycles,         \* findCycles: cycles found from the current start node
    allCycles,      \* findCircularDependencies: the deduplicated result so far
    result,         \* what the operation returned or threw
    request,        \* how the operation was requested, with the query text if any
    route,          \* the analyzer the request was delegated to, with its argument
    running,        \* the external command execSync is waiting for ("none" otherwise)
    cache,          \* this.cache: key -> data
    cacheTime,      \* this.cacheTime: key -> Date.now() of the call that stored the data
    now,            \* Date.now()
    calls,          \* the getCachedData calls of the HTTP requests, by request
    edits,          \* how many times the file tree was changed since the server started
    invalidated,    \* the response of the last POST /api/cache/invalidate
    imports,        \* nx: the import specifiers in the source files of the project
    rootDeps,       \* nx: the root manifest, declared name -> version
    report,         \* nx: what analyzeProject returned
    appsDir,        \* nx: the subdirectories of apps/, in readdirSync order
    libsDir,        \* nx: the subdirectories of libs/, in readdirSync order
    projects,       \* nx: what the directory scan returned
    depList,        \* fetchLatestVersions: Object.keys(dependencies)
    batchStart,     \* fetchLatestVersions: i, the index of the first item of the batch (from 0)
    pending,        \* fetchLatestVersions: the lookups of the batch that have not settled
    results,        \* fetchLatestVersions: dep -> latest version
    success,        \* fetchLatestVersions: the counter `success`
    failed,         \* fetchLatestVersions: the counter `failed`
    fetchPc,        \* fetchLatestVersions: position of the call
    advisories,     \* nx-vuln-scanner: Object.values(auditData.advisories)
    directDeps,     \* nx-vuln-scanner: what identifyDirectDependencies returned
    workspace,      \* nx: how `nx show projects` ends, and workspace.json and nx.json on disk
    consulted,      \* nx getProjects: the sources read so far, in order
    discoverPc      \* nx getProjects: position of the call

vars == <<tree, unreadable, pc, madgeRun, cruiserRun, adjacencyList, nodes,
          stack, visited, path, cycles, allCycles, result, request, route,
          running, cache, cacheTime, now, calls, edits, invalidated,
          imports, rootDeps, report, appsDir, libsDir, projects,
          depList, batchStart, pending, results, success, failed, fetchPc,
          advisories, directDeps, workspace, consulted, discoverPc>>

\* the variables of the analyzers of the server and of the request that runs them
analyzerVars == <<pc, madgeRun, cruiserRun, adjacencyList, nodes, stack, visited, path,
                  cycles, allCycles, result, request, route>>

\* the variables of the result cache
cacheVars == <<cache, cacheTime, now, calls, edits, invalidated>>

\* the variables of the nx project analysis and of the directory scan
nxVars == <<imports, rootDeps, report>>
scanVars == <<appsDir, libsDir, projects>>

\* the variables of fetchLatestVersions
fetchVars == <<depList, batchStart, pending, results, success, failed, fetchPc>>

\* the variables of identifyDirectDependencies
auditVars == <<advisories, directDeps>>

\* the variables of getProjects of NxProjectDepsAnalyzer
discoveryVars == <<workspace, consulted, discoverPc>>

\* what a step of an analyzer of the server leaves alone
besideAnalyzers == <<running, cacheVars, nxVars, scanVars, fetchVars, auditVars, discoveryVars>>

\* the variables of the running cycle detection
dfsVars == <<adjacencyList, nodes, stack, visited, path, cycles, allCycles>>

-----------------------------------------------------------------------------
(* Bounds of the model *)

\* at most this many dependency declarations in all package.json files together
MaxDecls == 3

-----------------------------------------------------------------------------
(* The file tree *)

\* directories under packagesDir, in the order readdirSync lists them
PkgOrder == <<"api", "core", "utils">>
PkgNames == {PkgOrder[i] : i \in 1..Len(PkgOrder)}

\* every dependency name of the model, in the order String.prototype.sort
\* and the key enumeration of a manifest put them
DepOrder == <<"api", "axios", "core", "utils">>
DepNames == {DepOrder[i] : i \in 1..Len(DepOrder)}

KindOrder == <<"dependencies", "devDependencies", "peerDependencies">>
Kinds == {KindOrder[i] : i \in 1..Len(KindOrder)}

Versions == {"1.0.0", "^1.0.0"}

Rank(n) == CHOOSE i \in 1..Len(DepOrder) : DepOrder[i] = n

RECURSIVE Concat(_)
Concat(ss) == IF ss = <<>> THEN <<>> ELSE Head(ss) \o Concat(Tail(ss))

RECURSIVE SubsetsUpTo(_, _)
SubsetsUpTo(S, k) ==
    IF k = 0 THEN {{}}
    ELSE LET prev == SubsetsUpTo(S, k - 1)
         IN  prev \cup {s \cup {e} : s \in prev, e \in S}

\* a JSON object has one value per key
WellFormed(t) ==
    \A d1 \in t, d2 \in t :
        (d1.owner = d2.owner /\ d1.kind = d2.kind /\ d1.name = d2.name) => d1 = d2

Declarations(owners, names, versions) ==
    [owner : owners, kind : Kinds, name : names, version : versions]

\* Object.keys(packageJson[kind] || {}) of package p
ObjectKeys(t, p, kind) ==
    SelectSeq(DepOrder, LAMBDA n : \E d \in t : d.owner = p /\ d.kind = kind /\ d.name = n)

\* analyzeStructure: the packages whose package.json exists and parses,
\* in directory order
AnalyzeStructure(unread) == SelectSeq(PkgOrder, LAMBDA p : p \notin unread)

SeqToSet(s) == {s[i] : i \in 1..Len(s)}

-----------------------------------------------------------------------------
(* Strings *)

UpperCase == "ABCDEFGHIJKLMNOPQRSTUVWXYZ"
LowerCase == "abcdefghijklmnopqrstuvwxyz"
Digits == "0123456789"

Ch(s, i) == SubSeq(s, i, i)

Chars(s) == {Ch(s, i) : i \in 1..Len(s)}

\* the lower-case letter of every upper-case letter
LowerOf ==
    [c \in Chars(UpperCase) |->
        Ch(LowerCase, CHOOSE i \in 1..Len(UpperCase) : Ch(UpperCase, i) = c)]

LowerChar(c) == IF c \in DOMAIN LowerOf THEN LowerOf[c] ELSE c

\* String.prototype.toLowerCase
RECURSIVE ToLowerCase(_)
ToLowerCase(s) ==
    IF s = "" THEN "" ELSE LowerChar(Ch(s, 1)) \o ToLowerCase(SubSeq(s, 2, Len(s)))

\* String.prototype.includes
Includes(s, kw) == \E i \in 1..(Len(s) - Len(kw) + 1) : SubSeq(s, i, i + Len(kw) - 1) = kw

-----------------------------------------------------------------------------
(* generateDependencyGraph, basic extraction *)

\* the manifest sections addDependencyEdges is called with
GraphKinds == <<"dependencies", "devDependencies">>

\* addDependencyEdges(deps) for package p
AddDependencyEdges(t, packages, p, kind) ==
    LET internal == SelectSeq(ObjectKeys(t, p, kind), LAMBDA dep : dep \in SeqToSet(packages))
    IN  [j \in 1..Len(internal) |-> [from |-> p, to |-> internal[j]]]

\* graph.edges of the fallback branch
GraphEdges(t, unread) ==
    LET packages == AnalyzeStructure(unread)
    IN  Concat([i \in 1..Len(packages) |->
                  Concat([k \in 1..Len(GraphKinds) |->
                            AddDependencyEdges(t, packages, packages[i], GraphKinds[k])])])

-----------------------------------------------------------------------------
(* The analyzers. A result is a record; kind "throw" is a thrown Error. *)

\* an absent argument (undefined or null) is <<>>, a given name n is <<n>>
NoArg == <<>>

Throw(message) == [kind |-> "throw", error |-> message]

\* an external command either prints JSON that parses ("ok") or lands in the
\* catch block: it is not installed, exits non-zero, or prints what
\* JSON.parse rejects ("failed")
ToolOutcomes == {"ok", "failed"}

\* what analyzeStructure returns
StructureResult(unread) ==
    [kind |-> "structure", packages |-> AnalyzeStructure(unread)]

\* generateDependencyGraph(packageName), dependency-cruiser ending as `cruiser`
GenerateDependencyGraph(t, unread, packageName, cruiser) ==
    IF packageName # NoArg /\ packageName[1] \notin SeqToSet(AnalyzeStructure(unread))
    THEN Throw("Package not found")
    ELSE IF cruiser = "ok"
    THEN \* JSON.parse(output): the cruise result, which has modules and a summary
         [kind |-> "cruise"]
    ELSE [kind |-> "graph",
          nodes |-> AnalyzeStructure(unread),
          edges |-> GraphEdges(t, unread)]

\* structure.packages.find(p => p.name === projectName ||
\*                              p.name.toLowerCase() === projectName.toLowerCase())
FindProject(unread, projectName) ==
    SelectSeq(AnalyzeStructure(unread),
              LAMBDA p : p = projectName \/ ToLowerCase(p) = ToLowerCase(projectName))

\* [name, version, type] of every entry of one manifest section
Entries(t, p, kind, type) ==
    LET keys == ObjectKeys(t, p, kind)
    IN  [j \in 1..Len(keys) |->
            [name |-> keys[j],
             version |-> (CHOOSE d \in t : d.owner = p /\ d.kind = kind /\ d.name = keys[j]).version,
             type |-> type]]

\* getProjectDependencies(projectName)
GetProjectDependencies(t, unread, projectName) ==
    LET found == FindProject(unread, projectName)
    IN  IF found = <<>>
        THEN [kind |-> "error",
              error |-> "not found in monorepo",
              availableProjects |-> AnalyzeStructure(unread)]
        ELSE LET project == found[1]
                 dependencies == Entries(t, project, "dependencies", "dependency")
                 devDependencies == Entries(t, project, "devDependencies", "devDependency")
                 peerDependencies == Entries(t, project, "peerDependencies", "peerDependency")
                 allDependencies == dependencies \o devDependencies \o peerDependencies
                 packageNames == SeqToSet(AnalyzeStructure(unread))
             IN  [kind |-> "projectDependencies",
                  project |-> project,
                  all |-> allDependencies,
                  production |-> dependencies,
                  development |-> devDependencies,
                  peer |-> peerDependencies,
                  internal |-> SelectSeq(allDependencies, LAMBDA d : d.name \in packageNames),
                  external |-> SelectSeq(allDependencies, LAMBDA d : d.name \notin packageNames)]

\* the fallback that lists the dependencies section only
ProcessPackageWithoutDev(t, p, depcheckFailed) ==
    IF depcheckFailed
    THEN [dependencies |-> ObjectKeys(t, p, "dependencies"),
          devDependencies |-> <<>>,
          note |-> TRUE]
    ELSE [dependencies |-> <<>>,
          devDependencies |-> <<>>,
          note |-> FALSE]

\* processPackage(pkg) of findUnusedDependencies: depcheck's lists, or every
\* declared dependency with a note when depcheck failed
ProcessPackage(t, p, depcheckFailed) ==
    IF depcheckFailed
    THEN [dependencies |-> ObjectKeys(t, p, "dependencies"),
          devDependencies |-> ObjectKeys(t, p, "devDependencies"),
          note |-> TRUE]
    ELSE [dependencies |-> <<>>,
          devDependencies |-> <<>>,
          note |-> FALSE]

\* findUnusedDependencies(packageName); depcheck fails for the packages in `failing`
FindUnusedDependencies(t, unread, packageName, failing) ==
    LET packages == AnalyzeStructure(unread)
    IN  IF packageName # NoArg /\ packageName[1] \notin SeqToSet(packages)
        THEN Throw("Package not found")
        ELSE LET targets == IF packageName # NoArg THEN {packageName[1]} ELSE SeqToSet(packages)
             IN  [kind |-> "unused",
                  results |-> [p \in targets |-> ProcessPackage(t, p, p \in failing)]]

\* how an npm command ends: exit code 0 with JSON, a non-zero exit code with
\* JSON on stdout (packages are outdated, vulnerabilities were found), or
\* output that JSON.parse rejects
NpmOutcomes == {"ok", "nonzero", "failed"}

\* findOutdatedDependencies: every failure of `npm outdated` is caught
FindOutdatedDependencies(npm) ==
    IF npm \in {"ok", "nonzero"} THEN [kind |-> "outdated"]
    ELSE [kind |-> "error", error |-> "Error parsing npm outdated output"]

\* findSecurityVulnerabilities: every failure of `npm audit` is caught
FindSecurityVulnerabilities(npm) ==
    IF npm \in {"ok", "nonzero"} THEN [kind |-> "audit"]
    ELSE [kind |-> "error", error |-> "Error parsing npm audit output"]

\* findPackagesUsingDependency(dependency)
FindPackagesUsingDependency(t, unread, dependency) ==
    [kind |-> "usedBy",
     dependency |-> dependency,
     packages |-> SelectSeq(AnalyzeStructure(unread),
                            LAMBDA p : \E d \in t : d.owner = p /\ d.name = dependency)]

\* the `type` collectDeps records for a manifest section
TypeOf(kind) ==
    CASE kind = "dependencies" -> "dependency"
      [] kind = "devDependencies" -> "devDependency"
      [] kind = "peerDependencies" -> "peerDependency"

\* the peer dependencies left out of the collection
CollectedKindsWithoutPeer == <<"dependencies", "devDependencies">>

\* the manifest sections findVersionInconsistencies collects
CollectedKinds == KindOrder

\* dependencyVersions: every {package, version, type} pushed by collectDeps
DependencyVersions(t, unread) ==
    LET packages == AnalyzeStructure(unread)
    IN  Concat([i \in 1..Len(packages) |->
                  Concat([k \in 1..Len(CollectedKinds) |->
                     LET es == Entries(t, packages[i], CollectedKinds[k], TypeOf(CollectedKinds[k]))
                     IN  [j \in 1..Len(es) |->
                            [package |-> packages[i], name |-> es[j].name,
                             version |-> es[j].version, type |-> es[j].type]]])])

\* flagging by the number of occurrences instead of the distinct versions
InconsistentByCount(versions) == Len(versions) > 1

\* uniqueVersions.size > 1
Inconsistent(versions) == Cardinality({versions[i].version : i \in 1..Len(versions)}) > 1

\* findVersionInconsistencies
FindVersionInconsistencies(t, unread) ==
    LET all == DependencyVersions(t, unread)
        versionsOf(dep) == SelectSeq(all, LAMBDA v : v.name = dep)
        flagged == {dep \in DepNames : Inconsistent(versionsOf(dep))}
    IN  [kind |-> "inconsistencies",
         total |-> Cardinality(flagged),
         details |-> [dep \in flagged |-> versionsOf(dep)]]

-----------------------------------------------------------------------------
(* findCircularDependencies, basic detection *)

\* every edge entered under its target
BuildAdjacencyListReversed(edges) ==
    [n \in PkgNames |->
        LET mine == SelectSeq(edges, LAMBDA e : e.to = n)
        IN  [j \in 1..Len(mine) |-> mine[j].from]]

\* adjacencyList[n] || []
BuildAdjacencyList(edges) ==
    [n \in PkgNames |->
        LET mine == SelectSeq(edges, LAMBDA e : e.from = n)
        IN  [j \in 1..Len(mine) |-> mine[j].to]]

\* Object.keys(adjacencyList): the nodes with an outgoing edge, by first edge
AdjacencyKeys(edges) ==
    LET firstAt(n) == CHOOSE i \in 1..Len(edges) :
                          edges[i].from = n /\ \A j \in 1..(i - 1) : edges[j].from # n
        froms == {edges[i].from : i \in 1..Len(edges)}
    IN  SortSeq(SelectSeq(PkgOrder, LAMBDA n : n \in froms),
                LAMBDA a, b : firstAt(a) < firstAt(b))

\* the visited check placed before the path check
DfsCaseVisitedFirst(current, pathSet, visitedSet) ==
    IF current \in visitedSet THEN "visited"
    ELSE IF current \in pathSet THEN "cycle"
    ELSE "descend"

\* both checks left out
DfsCaseUnguarded(current, pathSet, visitedSet) == "descend"

\* the three ways a call dfs(current, pathArr) can go
DfsCase(current, pathSet, visitedSet) ==
    IF current \in pathSet THEN "cycle"
    ELSE IF current \in visitedSet THEN "visited"
    ELSE "descend"

IndexOf(s, x) == CHOOSE i \in 1..Len(s) : s[i] = x /\ \A j \in 1..(i - 1) : s[j] # x

\* pathArr.slice(cycleStart).concat(current)
CycleOf(pathArr, current) ==
    SubSeq(pathArr, IndexOf(pathArr, current), Len(pathArr)) \o <<current>>

\* [...cycle].sort()
Sorted(cycle) == SortSeq(cycle, LAMBDA a, b : Rank(a) < Rank(b))

\* Array.prototype.join(',')
RECURSIVE Join(_)
Join(s) ==
    IF s = <<>> THEN ""
    ELSE IF Len(s) = 1 THEN s[1]
    ELSE s[1] \o "," \o Join(Tail(s))

\* allCycles.some(c => c.join(',') === key)
AlreadyReported(all, cycle) ==
    LET key == Join(Sorted(cycle))
    IN  \E i \in 1..Len(all) : Join(all[i]) = key

\* cycles.forEach(cycle => { ... allCycles.push(cycle) })
RECURSIVE MergeCycles(_, _)
MergeCycles(all, cs) ==
    IF cs = <<>> THEN all
    ELSE MergeCycles(IF AlreadyReported(all, Head(cs)) THEN all ELSE Append(all, Head(cs)),
                     Tail(cs))

NoResult == [kind |-> "none"]

\* findCircularDependencies up to the first call of findCycles: madge, then
\* generateDependencyGraph() with dependency-cruiser first
FindCircularDependencies ==
    /\ pc = "findCircular"
    /\ \/ \* return JSON.parse(output || '[]')
          /\ madgeRun' = "ok"
          /\ cruiserRun' = "none"
          /\ result' = [kind |-> "madge"]
          /\ pc' = "done"
          /\ UNCHANGED <<adjacencyList, nodes>>
       \/ \* the catch block: the basic detection on the built-in graph
          \E m \in ToolOutcomes \ {"ok"}, c \in ToolOutcomes :
            LET graph == GenerateDependencyGraph(tree, unreadable, NoArg, c)
            IN  /\ madgeRun' = m
                /\ cruiserRun' = c
                /\ IF graph.kind # "graph"
                   THEN \* graph.edges is undefined: graph.edges.forEach throws
                        /\ result' = Throw("TypeError")
                        /\ pc' = "done"
                        /\ UNCHANGED <<adjacencyList, nodes>>
                   ELSE /\ adjacencyList' = BuildAdjacencyList(graph.edges)
                        /\ nodes' = AdjacencyKeys(graph.edges)
                        /\ result' = NoResult
                        /\ pc' = "forEach"
    /\ UNCHANGED <<request, route, tree, unreadable, stack, visited, path, cycles, allCycles>>
    /\ UNCHANGED besideAnalyzers

\* const cycles = findCycles(node): the call, up to dfs(node, [])
FindCyclesCall ==
    /\ pc = "forEach"
    /\ nodes # <<>>
    /\ visited' = {}
    /\ path' = {}
    /\ cycles' = <<>>
    /\ stack' = <<[current |-> Head(nodes), pathArr |-> <<>>, i |-> 0]>>
    /\ pc' = "dfs"
    /\ UNCHANGED <<request, route, tree, unreadable, madgeRun, cruiserRun, adjacencyList, nodes,
                   allCycles, result>>
    /\ UNCHANGED besideAnalyzers

Top == stack[Len(stack)]
Pop == SubSeq(stack, 1, Len(stack) - 1)

\* dfs: current is on the path, record the cycle and return
DfsCycle ==
    /\ pc = "dfs" /\ stack # <<>> /\ Top.i = 0
    /\ DfsCase(Top.current, path, visited) = "cycle"
    /\ cycles' = Append(cycles, CycleOf(Top.pathArr, Top.current))
    /\ stack' = Pop
    /\ UNCHANGED <<request, route, tree, unreadable, pc, madgeRun, cruiserRun, adjacencyList, nodes,
                   visited, path, allCycles, result>>
    /\ UNCHANGED besideAnalyzers

\* dfs: current was visited before, return
DfsVisited ==
    /\ pc = "dfs" /\ stack # <<>> /\ Top.i = 0
    /\ DfsCase(Top.current, path, visited) = "visited"
    /\ stack' = Pop
    /\ UNCHANGED <<request, route, tree, unreadable, pc, madgeRun, cruiserRun, adjacencyList, nodes,
                   visited, path, cycles, allCycles, result>>
    /\ UNCHANGED besideAnalyzers

\* dfs: mark current, extend the path, start on the neighbours
DfsDescend ==
    /\ pc = "dfs" /\ stack # <<>> /\ Top.i = 0
    /\ DfsCase(Top.current, path, visited) = "descend"
    /\ visited' = visited \cup {Top.current}
    /\ path' = path \cup {Top.current}
    /\ stack' = Append(Pop, [current |-> Top.current,
                             pathArr |-> Append(Top.pathArr, Top.current),
                             i |-> 1])
    /\ UNCHANGED <<request, route, tree, unreadable, pc, madgeRun, cruiserRun, adjacencyList, nodes,
                   cycles, allCycles, result>>
    /\ UNCHANGED besideAnalyzers

\* dfs: the next neighbour, dfs(neighbor, [...pathArr])
DfsNeighbor ==
    /\ pc = "dfs" /\ stack # <<>> /\ Top.i >= 1
    /\ Top.i <= Len(adjacencyList[Top.current])
    /\ stack' = Append(Append(Pop, [Top EXCEPT !.i = Top.i + 1]),
                       [current |-> adjacencyList[Top.current][Top.i],
                        pathArr |-> Top.pathArr,
                        i |-> 0])
    /\ UNCHANGED <<request, route, tree, unreadable, pc, madgeRun, cruiserRun, adjacencyList, nodes,
                   visited, path, cycles, allCycles, result>>
    /\ UNCHANGED besideAnalyzers

\* dfs: neighbours done, path.delete(current) and return
DfsReturn ==
    /\ pc = "dfs" /\ stack # <<>> /\ Top.i >= 1
    /\ Top.i > Len(adjacencyList[Top.current])
    /\ path' = path \ {Top.current}
    /\ stack' = Pop
    /\ UNCHANGED <<request, route, tree, unreadable, pc, madgeRun, cruiserRun, adjacencyList, nodes,
                   visited, cycles, allCycles, result>>
    /\ UNCHANGED besideAnalyzers

\* findCycles returned: its cycles go through the duplicate filter
FindCyclesReturn ==
    /\ pc = "dfs" /\ stack = <<>>
    /\ allCycles' = MergeCycles(allCycles, cycles)
    /\ nodes' = Tail(nodes)
    /\ pc' = "forEach"
    /\ UNCHANGED <<request, route, tree, unreadable, madgeRun, cruiserRun, adjacencyList, stack,
                   visited, path, cycles, result>>
    /\ UNCHANGED besideAnalyzers

\* return allCycles
ReturnAllCycles ==
    /\ pc = "forEach"
    /\ nodes = <<>>
    /\ result' = [kind |-> "cycles", value |-> allCycles]
    /\ pc' = "done"
    /\ UNCHANGED <<request, route, tree, unreadable, madgeRun, cruiserRun, adjacencyList, nodes, stack,
                   visited, path, cycles, allCycles>>
    /\ UNCHANGED besideAnalyzers

-----------------------------------------------------------------------------
(* processQuery: the regular expressions *)

\* the characters of [a-zA-Z0-9\-@/.] and of [a-zA-Z0-9\-@/]
DottedNameChars == Chars(LowerCase) \cup Chars(UpperCase) \cup Chars(Digits) \cup {"-", "@", "/", "."}
PlainNameChars == DottedNameChars \ {"."}

\* the positions after one of the literals `lits` read from a position of P
Lit(s, P, lits) ==
    IF P = {} THEN {} ELSE
    {x[1] + Len(x[2]) :
        x \in {y \in P \X lits : /\ y[1] + Len(y[2]) - 1 <= Len(s)
                                 /\ SubSeq(s, y[1], y[1] + Len(y[2]) - 1) = y[2]}}

\* \s+ : the positions after one or more blanks read from a position of P
Blanks(s, P) ==
    IF P = {} THEN {} ELSE
    {e \in 2..(Len(s) + 1) : \E b \in P : b < e /\ \A k \in b..(e - 1) : Ch(s, k) = " "}

\* the positions of P where a name of the class starts
NameStarts(s, P, class) == {b \in P : b <= Len(s) /\ Ch(s, b) \in class}

\* ([class]+), greedy: the name that starts at position b
NameAt(s, b, class) ==
    LET e == CHOOSE e \in b..Len(s) :
                 /\ \A k \in b..e : Ch(s, k) \in class
                 /\ (e = Len(s) \/ Ch(s, e + 1) \notin class)
    IN  SubSeq(s, b, e)

\* /(?:what|which|list|show|get|find)(?:\s+(?:are|is))?\s+(?:the\s+)?
\*  (?:dependencies|deps)(?:\s+(?:for|of|in|used\s+(?:by|in)))?\s+
\*  (?:project|package|proj|pkg)\s+([a-zA-Z0-9\-@/.]+)/i
ProjectDepsFrom(s, b) ==
    LET verb == Lit(s, {b}, {"what", "which", "list", "show", "get", "find"})
        be == verb \cup Lit(s, Blanks(s, verb), {"are", "is"})
        sp1 == Blanks(s, be)
        the == sp1 \cup Blanks(s, Lit(s, sp1, {"the"}))
        deps == Lit(s, the, {"dependencies", "deps"})
        prep == deps \cup Lit(s, Blanks(s, deps), {"for", "of", "in"})
                     \cup Lit(s, Blanks(s, Lit(s, Blanks(s, deps), {"used"})), {"by", "in"})
        unit == Lit(s, Blanks(s, prep), {"project", "package", "proj", "pkg"})
    IN  NameStarts(s, Blanks(s, unit), DottedNameChars)

\* /(?:project|package|proj|pkg)\s+([a-zA-Z0-9\-@/.]+)/i
ProjectFrom(s, b) ==
    NameStarts(s, Blanks(s, Lit(s, {b}, {"project", "package", "proj", "pkg"})), DottedNameChars)

\* /(using|depending on|depend on|use|uses)\s+([a-zA-Z0-9\-@/.]+)/i
DependencyFrom(s, b) ==
    NameStarts(s, Blanks(s, Lit(s, {b}, {"using", "depending on", "depend on", "use", "uses"})),
               DottedNameChars)

\* /package[s]?\s+([a-zA-Z0-9\-@/]+)/i
PackageFrom(s, b) ==
    LET word == Lit(s, {b}, {"package"})
    IN  NameStarts(s, Blanks(s, word \cup Lit(s, word, {"s"})), PlainNameChars)

\* /(?:packages|projects)\s+(?:using|depending on)\s+([a-zA-Z0-9\-@/]+)/i
UsingFrom(s, b) ==
    NameStarts(s, Blanks(s, Lit(s, Blanks(s, Lit(s, {b}, {"packages", "projects"})),
                                {"using", "depending on"})),
               PlainNameChars)

\* the capture starts of the matches of a regular expression of processQuery
\* that begin at position b
MatchFrom(regex, s, b) ==
    CASE regex = "projectDepsMatch" -> ProjectDepsFrom(s, b)
      [] regex = "projectMatch" -> ProjectFrom(s, b)
      [] regex = "dependencyMatch" -> DependencyFrom(s, b)
      [] regex = "packageMatch" -> PackageFrom(s, b)
      [] regex = "usingMatch" -> UsingFrom(s, b)

\* String.prototype.match: where the capture group starts in the leftmost
\* match, 0 when nothing matches; `lower` is the text the literals are read in.
CaptureStart(lower, regex) ==
    LET begins == {b \in 1..Len(lower) : MatchFrom(regex, lower, b) # {}}
    IN  IF begins = {} THEN 0
        ELSE LET first == CHOOSE b \in begins : \A c \in begins : b <= c
                 starts == MatchFrom(regex, lower, first)
             IN  CHOOSE c \in starts : \A d \in starts : c <= d

\* the conditions of the if statements of processQuery, on queryLower
MentionsDependencies(lower) == Includes(lower, "dependencies") \/ Includes(lower, "deps")

MentionsProject(lower) ==
    Includes(lower, "project") \/ Includes(lower, "package") \/ Includes(lower, "for")

MentionsUsage(lower) == Includes(lower, "using") \/ Includes(lower, "depend")

AsksInconsistencies(lower) == Includes(lower, "version") /\ Includes(lower, "inconsistent")

AsksUnused(lower) == Includes(lower, "unused") /\ Includes(lower, "dependencies")

AsksOutdated(lower) == Includes(lower, "outdated")

AsksSecurity(lower) == Includes(lower, "security") \/ Includes(lower, "vulnerabilities")

AsksCircular(lower) == Includes(lower, "circular")

AsksGraph(lower) ==
    Includes(lower, "graph") \/ (Includes(lower, "dependency") /\ Includes(lower, "structure"))

Route(analyzer, arg) == [analyzer |-> analyzer, arg |-> arg]

\* packageMatch ? packageMatch[1] : null
PackageArg(query, lower) ==
    LET at == CaptureStart(lower, "packageMatch")
    IN  IF at = 0 THEN NoArg ELSE <<NameAt(query, at, PlainNameChars)>>

\* processQuery from `if (queryLower.includes('version') && ...)` on
KeywordRoutes(query, lower) ==
    IF AsksInconsistencies(lower) THEN Route("findVersionInconsistencies", NoArg)
    ELSE IF AsksUnused(lower) THEN Route("findUnusedDependencies", PackageArg(query, lower))
    ELSE IF AsksOutdated(lower) THEN Route("findOutdatedDependencies", NoArg)
    ELSE IF AsksSecurity(lower) THEN Route("findSecurityVulnerabilities", NoArg)
    ELSE IF AsksCircular(lower) THEN Route("findCircularDependencies", NoArg)
    ELSE IF AsksGraph(lower) THEN Route("generateDependencyGraph", PackageArg(query, lower))
    ELSE IF CaptureStart(lower, "usingMatch") # 0
    THEN Route("findPackagesUsingDependency",
               <<NameAt(query, CaptureStart(lower, "usingMatch"), PlainNameChars)>>)
    ELSE Route("analyzeStructure", NoArg)

\* the keyword routes tried before the project and usage questions
ProcessQueryKeywordsFirst(query) ==
    LET lower == ToLowerCase(query)
        keyword == KeywordRoutes(query, lower)
    IN  IF keyword.analyzer # "analyzeStructure" THEN keyword
        ELSE IF CaptureStart(lower, "projectDepsMatch") # 0
        THEN Route("getProjectDependencies",
                   <<NameAt(lower, CaptureStart(lower, "projectDepsMatch"), DottedNameChars)>>)
        ELSE IF MentionsDependencies(lower) /\ MentionsProject(lower)
                /\ CaptureStart(lower, "projectMatch") # 0
        THEN Route("getProjectDependencies",
                   <<NameAt(query, CaptureStart(lower, "projectMatch"), DottedNameChars)>>)
        ELSE IF MentionsUsage(lower) /\ CaptureStart(lower, "dependencyMatch") # 0
        THEN Route("findPackagesUsingDependency",
                   <<NameAt(lower, CaptureStart(lower, "dependencyMatch"), DottedNameChars)>>)
        ELSE keyword

\* processQuery(query) for a string: the analyzer it returns the result of
ProcessQuery(query) ==
    LET lower == ToLowerCase(query)
    IN  IF CaptureStart(lower, "projectDepsMatch") # 0
        THEN Route("getProjectDependencies",
                   <<NameAt(lower, CaptureStart(lower, "projectDepsMatch"), DottedNameChars)>>)
        ELSE IF MentionsDependencies(lower) /\ MentionsProject(lower)
                /\ CaptureStart(lower, "projectMatch") # 0
        THEN Route("getProjectDependencies",
                   <<NameAt(query, CaptureStart(lower, "projectMatch"), DottedNameChars)>>)
        ELSE IF MentionsUsage(lower) /\ CaptureStart(lower, "dependencyMatch") # 0
        THEN Route("findPackagesUsingDependency",
                   <<NameAt(lower, CaptureStart(lower, "dependencyMatch"), DottedNameChars)>>)
        ELSE KeywordRoutes(query, lower)

-----------------------------------------------------------------------------
(* Requests *)

\* at most this many phrases in a query text
MaxPhrases == 3

\* what the query texts of the model are put together from
Phrases ==
    {"show", "dependencies", "for project core", "pkg Core", "in packages zzz",
     "packages", "using axios", "inconsistent version", "unused", "outdated",
     "security", "circular", "graph"}

RECURSIVE QueriesUpTo(_)
QueriesUpTo(k) ==
    IF k = 0 THEN {""}
    ELSE LET prev == QueriesUpTo(k - 1)
         IN  prev \cup {IF q = "" THEN ph ELSE q \o " " \o ph : q \in prev, ph \in Phrases}

Queries == QueriesUpTo(MaxPhrases)

\* the names a caller passes: packages, a package in another case, unknown names
CallNames == PkgNames \cup {"Core", "zzz"}

NoRoute == Route("none", NoArg)

\* the analyzers of a query answered through the cache of GET /api/unused
DelegateThroughCache(r, tool, failing) ==
    IF "unused-all" \in DOMAIN cache
    THEN cache["unused-all"]
    ELSE FindUnusedDependencies(tree, unreadable, r.arg, failing)

\* the analyzers that finish in one step, with the outcomes of the tools they run
Delegate(r, tool, failing) ==
    CASE r.analyzer = "getProjectDependencies" ->
            GetProjectDependencies(tree, unreadable, r.arg[1])
      [] r.analyzer = "findPackagesUsingDependency" ->
            FindPackagesUsingDependency(tree, unreadable, r.arg[1])
      [] r.analyzer = "findVersionInconsistencies" ->
            FindVersionInconsistencies(tree, unreadable)
      [] r.analyzer = "findUnusedDependencies" ->
            FindUnusedDependencies(tree, unreadable, r.arg, failing)
      [] r.analyzer = "findOutdatedDependencies" -> FindOutdatedDependencies(tool)
      [] r.analyzer = "findSecurityVulnerabilities" -> FindSecurityVulnerabilities(tool)
      [] r.analyzer = "generateDependencyGraph" ->
            GenerateDependencyGraph(tree, unreadable, r.arg, tool)
      [] r.analyzer = "analyzeStructure" -> StructureResult(unreadable)

\* the tool outcomes an analyzer depends on (one fixed value for the others)
ToolsOf(r) ==
    IF r.analyzer \in {"findOutdatedDependencies", "findSecurityVulnerabilities"}
    THEN NpmOutcomes
    ELSE IF r.analyzer = "generateDependencyGraph" THEN ToolOutcomes
    ELSE {"ok"}

FailingOf(r) ==
    IF r.analyzer = "findUnusedDependencies" THEN SUBSET PkgNames ELSE {{}}

\* the analyzer of route r runs: findCircularDependencies in steps, the others at once
Run(r) ==
    /\ route' = r
    /\ IF r.analyzer = "findCircularDependencies"
       THEN /\ pc' = "findCircular"
            /\ result' = NoResult
            /\ UNCHANGED cruiserRun
       ELSE /\ pc' = "done"
            /\ \E tool \in ToolsOf(r), failing \in FailingOf(r) :
                 /\ result' = Delegate(r, tool, failing)
                 /\ cruiserRun' = IF r.analyzer = "generateDependencyGraph"
                                      /\ result'.kind # "throw"
                                  THEN tool ELSE cruiserRun

\* POST /api/query with a query text
PostQuery ==
    /\ pc = "idle"
    /\ \E q \in Queries :
         /\ request' = [via |-> "query", query |-> <<q>>]
         /\ Run(ProcessQuery(q))
    /\ UNCHANGED <<tree, unreadable, madgeRun, dfsVars>>
    /\ UNCHANGED besideAnalyzers

\* POST /api/query with a body that has no query: query.toLowerCase() throws
PostQueryWithoutText ==
    /\ pc = "idle"
    /\ request' = [via |-> "query", query |-> <<>>]
    /\ route' = NoRoute
    /\ result' = Throw("TypeError")
    /\ pc' = "done"
    /\ UNCHANGED <<tree, unreadable, madgeRun, cruiserRun, dfsVars>>
    /\ UNCHANGED besideAnalyzers

\* a caller invokes getProjectDependencies(name)
CallGetProjectDependencies ==
    /\ pc = "idle"
    /\ request' = [via |-> "call", query |-> <<>>]
    /\ \E name \in CallNames : Run(Route("getProjectDependencies", <<name>>))
    /\ UNCHANGED <<tree, unreadable, madgeRun, dfsVars>>
    /\ UNCHANGED besideAnalyzers

\* a caller invokes findUnusedDependencies(packageName)
CallFindUnusedDependencies ==
    /\ pc = "idle"
    /\ request' = [via |-> "call", query |-> <<>>]
    /\ \E arg \in {NoArg} \cup {<<n>> : n \in CallNames} :
         Run(Route("findUnusedDependencies", arg))
    /\ UNCHANGED <<tree, unreadable, madgeRun, dfsVars>>
    /\ UNCHANGED besideAnalyzers

\* a caller invokes generateDependencyGraph(packageName)
CallGenerateDependencyGraph ==
    /\ pc = "idle"
    /\ request' = [via |-> "call", query |-> <<>>]
    /\ \E arg \in {NoArg} \cup {<<n>> : n \in CallNames} :
         Run(Route("generateDependencyGraph", arg))
    /\ UNCHANGED <<tree, unreadable, madgeRun, dfsVars>>
    /\ UNCHANGED besideAnalyzers

\* a caller invokes findCircularDependencies()
CallFindCircularDependencies ==
    /\ pc = "idle"
    /\ request' = [via |-> "call", query |-> <<>>]
    /\ Run(Route("findCircularDependencies", NoArg))
    /\ UNCHANGED <<tree, unreadable, madgeRun, dfsVars>>
    /\ UNCHANGED besideAnalyzers

\* a caller invokes findVersionInconsistencies()
CallFindVersionInconsistencies ==
    /\ pc = "idle"
    /\ request' = [via |-> "call", query |-> <<>>]
    /\ Run(Route("findVersionInconsistencies", NoArg))
    /\ UNCHANGED <<tree, unreadable, madgeRun, dfsVars>>
    /\ UNCHANGED besideAnalyzers

-----------------------------------------------------------------------------
(* The result cache: getCachedData, invalidateCache and the cached routes *)

\* at most this many GET requests to the cached routes, numbered as they arrive
MaxCalls == 3

\* Date.now() advances at most this far
MaxClock == 2

\* this.cacheTTL, in ticks of the clock
CacheTTL == 2

\* the file tree is changed at most this many times
MaxEdits == 1

Requests == 1..MaxCalls

EmptyMap == [k \in {} |-> k]

\* Map.prototype.set
Put(map, k, v) == [x \in DOMAIN map \cup {k} |-> IF x = k THEN v ELSE map[x]]

\* Map.prototype.delete
Remove(map, k) == [x \in DOMAIN map \ {k} |-> map[x]]

\* the GET requests of the model: /api/structure, and /api/unused without a
\* package or with ?package=<name>
Endpoints ==
    {[route |-> "structure", arg |-> NoArg],
     [route |-> "unused", arg |-> NoArg],
     [route |-> "unused", arg |-> <<"all">>],
     [route |-> "unused", arg |-> <<"core">>]}

\* the cache key of a route: `unused-${packageName || 'all'}` and the like
CacheKey(e) ==
    CASE e.route = "structure" -> "structure"
      [] e.route = "unused" -> "unused-" \o (IF e.arg = NoArg THEN "all" ELSE e.arg[1])
      [] e.route = "graph" -> "graph-" \o (IF e.arg = NoArg THEN "all" ELSE e.arg[1])

\* dataFn of a route, run on file tree t; depcheck and dependency-cruiser are
\* not installed
DataFn(e, t, unread) ==
    CASE e.route = "structure" -> StructureResult(unread)
      [] e.route = "unused" -> FindUnusedDependencies(t, unread, e.arg, PkgNames)
      [] e.route = "graph" -> GenerateDependencyGraph(t, unread, e.arg, "failed")

\* an entry counts as fresh up to and including the age cacheTTL
UnexpiredInclusive(map, times, key, t) == key \in DOMAIN map /\ t - times[key] <= CacheTTL

\* this.cache.has(key) && now - this.cacheTime.get(key) < this.cacheTTL
Unexpired(map, times, key, t) == key \in DOMAIN map /\ t - times[key] < CacheTTL

\* a dataFn that throws taken for one that returned what it threw
RejectsNever(data) == FALSE

\* `await dataFn()` throws: the two set calls after it are not reached
Rejects(data) == data.kind = "throw"

NoCall == [state |-> "none"]

\* getCachedData(key, dataFn) up to `await dataFn()`: the cached value if it
\* has not expired, else the computation starts. A dataFn that throws leaves
\* the cache alone.
GetCachedData ==
    /\ \E r \in Requests, e \in Endpoints :
        LET key == CacheKey(e)
            call == [endpoint |-> e, key |-> key, now |-> now]
        IN  /\ calls[r] = NoCall
            /\ \A q \in Requests : q < r => calls[q] # NoCall
            /\ IF Unexpired(cache, cacheTime, key, now)
               THEN calls' = [calls EXCEPT ![r] =
                        call @@ [state |-> "done", data |-> cache[key], fromCache |-> TRUE]]
               ELSE LET data == DataFn(e, tree, unreadable)
                    IN  calls' = [calls EXCEPT ![r] =
                            call @@ [state |-> IF Rejects(data) THEN "done" ELSE "await",
                                     data |-> data, fromCache |-> FALSE]]
    /\ UNCHANGED <<cache, cacheTime, now, edits, invalidated>>
    /\ UNCHANGED <<tree, unreadable, analyzerVars, running, auditVars, discoveryVars, nxVars, scanVars, fetchVars>>

\* getCachedData after `await dataFn()`: cache.set, cacheTime.set(key, now), return data
GetCachedDataResume ==
    /\ \E r \in Requests :
        /\ calls[r].state = "await"
        /\ cache' = Put(cache, calls[r].key, calls[r].data)
        /\ cacheTime' = Put(cacheTime, calls[r].key, calls[r].now)
        /\ calls' = [calls EXCEPT ![r].state = "done"]
    /\ UNCHANGED <<now, edits, invalidated>>
    /\ UNCHANGED <<tree, unreadable, analyzerVars, running, auditVars, discoveryVars, nxVars, scanVars, fetchVars>>

\* the keys POST /api/cache/invalidate is sent
InvalidateKeys == {"structure", "unused-all", "outdated"}

\* every entry dropped, whatever the key
InvalidateCacheClearing(map, cached, key) == EmptyMap

\* invalidateCache(key) on one of the two maps: if (this.cache.has(key)) delete
InvalidateCache(map, cached, key) == IF key \in DOMAIN cached THEN Remove(map, key) ELSE map

\* POST /api/cache/invalidate with a key, or without one
PostCacheInvalidate ==
    /\ \E key \in {NoArg} \cup {<<k>> : k \in InvalidateKeys} :
        IF key # NoArg
        THEN /\ cache' = InvalidateCache(cache, cache, key[1])
             /\ cacheTime' = InvalidateCache(cacheTime, cache, key[1])
             /\ invalidated' = [message |-> "Cache invalidated for key", key |-> key]
        ELSE /\ cache' = EmptyMap
             /\ cacheTime' = EmptyMap
             /\ invalidated' = [message |-> "All cache invalidated", key |-> NoArg]
    /\ UNCHANGED <<now, calls, edits>>
    /\ UNCHANGED <<tree, unreadable, analyzerVars, running, auditVars, discoveryVars, nxVars, scanVars, fetchVars>>

\* time passes
Tick ==
    /\ now < MaxClock
    /\ now' = now + 1
    /\ UNCHANGED <<cache, cacheTime, calls, edits, invalidated>>
    /\ UNCHANGED <<tree, unreadable, analyzerVars, running, auditVars, discoveryVars, nxVars, scanVars, fetchVars>>

-----------------------------------------------------------------------------
(* nx-project-deps: getProjectImports and analyzeProject *)

\* at most this many import specifiers in the source files of the project
MaxImports == 2

\* at most this many entries in the root manifest
MaxRootDecls == 2

\* String.prototype.startsWith
StartsWith(s, prefix) == Len(prefix) <= Len(s) /\ SubSeq(s, 1, Len(prefix)) = prefix

\* the segments of s.split('/')
RECURSIVE Split(_)
Split(s) ==
    IF ~Includes(s, "/") THEN <<s>>
    ELSE LET i == CHOOSE i \in 1..Len(s) :
                      Ch(s, i) = "/" /\ \A j \in 1..(i - 1) : Ch(s, j) # "/"
         IN  <<SubSeq(s, 1, i - 1)>> \o Split(SubSeq(s, i + 1, Len(s)))

\* Set.prototype.add on a set kept in insertion order
Add(seq, x) == IF x \in SeqToSet(seq) THEN seq ELSE Append(seq, x)

\* getProjectImports: importPath.split('/')[0] of every specifier that does
\* not start with '.', each once, in the order found
RECURSIVE GetProjectImports(_)
GetProjectImports(specifiers) ==
    IF specifiers = <<>> THEN <<>>
    ELSE LET before == GetProjectImports(SubSeq(specifiers, 1, Len(specifiers) - 1))
             importPath == specifiers[Len(specifiers)]
         IN  IF StartsWith(importPath, ".") THEN before
             ELSE Add(before, Split(importPath)[1])

\* {...dependencies, ...devDependencies, ...peerDependencies}: a later section
\* overrides an earlier one
RootDeps(manifest) ==
    LET names == {d.name : d \in manifest}
        last(n) == CHOOSE k \in 1..Len(KindOrder) :
                      /\ \E d \in manifest : d.name = n /\ d.kind = KindOrder[k]
                      /\ \A d \in manifest : d.name = n => (CHOOSE j \in 1..Len(KindOrder) : KindOrder[j] = d.kind) <= k
    IN  [n \in names |->
            (CHOOSE d \in manifest : d.name = n /\ d.kind = KindOrder[last(n)]).version]

\* if (rootDeps[importName]): the name is a key and its version is not ''
Truthy(deps, name) == name \in DOMAIN deps /\ deps[name] # ""

\* Object.keys(rootDeps).filter(dep => dep.startsWith(scope + '/'))
MatchingDeps(deps, importName) ==
    {dep \in DOMAIN deps : StartsWith(dep, Split(importName)[1] \o "/")}

\* a scoped import with declared packages of its scope is also pushed to unmatchedImports
MatchImportAlsoUnmatched(acc, deps, importName) ==
    IF Truthy(deps, importName)
    THEN [acc EXCEPT !.matchedDeps = Put(@, importName, deps[importName])]
    ELSE [matchedDeps |-> [dep \in DOMAIN acc.matchedDeps \cup
                                   (IF StartsWith(importName, "@")
                                    THEN MatchingDeps(deps, importName) ELSE {}) |-> deps[dep]],
          unmatchedImports |-> Append(acc.unmatchedImports, importName)]

\* the body of imports.forEach(importName => ...) of analyzeProject
MatchImport(acc, deps, importName) ==
    IF Truthy(deps, importName)
    THEN [acc EXCEPT !.matchedDeps = Put(@, importName, deps[importName])]
    ELSE IF StartsWith(importName, "@") /\ MatchingDeps(deps, importName) # {}
    THEN [acc EXCEPT !.matchedDeps =
              [dep \in DOMAIN @ \cup MatchingDeps(deps, importName) |-> deps[dep]]]
    ELSE [acc EXCEPT !.unmatchedImports = Append(@, importName)]

RECURSIVE MatchImports(_, _)
MatchImports(importNames, deps) ==
    IF importNames = <<>> THEN [matchedDeps |-> EmptyMap, unmatchedImports |-> <<>>]
    ELSE MatchImport(MatchImports(SubSeq(importNames, 1, Len(importNames) - 1), deps),
                     deps, importNames[Len(importNames)])

\* what analyzeProject returns for a project with a configuration and a root manifest
AnalyzeProjectResult(specifiers, manifest) ==
    LET matched == MatchImports(GetProjectImports(specifiers), RootDeps(manifest))
    IN  [dependencies |-> matched.matchedDeps,
         unmatchedImports |-> matched.unmatchedImports,
         totalMatched |-> Cardinality(DOMAIN matched.matchedDeps),
         totalUnmatched |-> Len(matched.unmatchedImports)]

NoReport == [totalMatched |-> -1]

\* analyzeProject(projectName)
AnalyzeProject ==
    /\ report = NoReport
    /\ report' = AnalyzeProjectResult(imports, rootDeps)
    /\ UNCHANGED <<imports, rootDeps>>
    /\ UNCHANGED <<tree, unreadable, analyzerVars, running, auditVars, discoveryVars, cacheVars, scanVars, fetchVars>>

\* the import specifiers and the declared names of the model
Specifiers ==
    {"@angular/core", "@angular/core/testing", "@nx/devkit", "rxjs/operators", "lodash",
     "./app.module", "fs"}

RootNames == {"@angular/core", "@angular/common", "rxjs", "lodash"}

\* the sequences of at most k elements of S
RECURSIVE SeqsUpTo(_, _)
SeqsUpTo(S, k) ==
    IF k = 0 THEN {<<>>}
    ELSE LET prev == SeqsUpTo(S, k - 1)
         IN  prev \cup {Append(q, x) : q \in prev, x \in S}

-----------------------------------------------------------------------------
(* nx: the directory scan, scanProjectDirectories and getProjectsFromDirectories *)

\* the entry names of the model, in readdirSync order
EntryOrder == <<"shared", "web">>

\* what statSync finds: a directory, a file, or a link to nothing (it throws)
EntryKinds == {"directory", "file", "dangling"}

\* a directory that does not exist (existsSync is false)
Missing == [exists |-> FALSE, entries |-> <<>>]

\* the directories apps/ and libs/ can be: missing, or with entries
\* [name, kind, manifest]
Listings ==
    {Missing} \cup
    {[exists |-> TRUE, entries |->
     SelectSeq([i \in 1..Len(EntryOrder) |-> IF c[i] = "absent" THEN [name |-> "absent"]
                                             ELSE [name |-> EntryOrder[i], kind |-> c[i][1],
                                                   manifest |-> c[i][2]]],
               LAMBDA e : e.name # "absent")] :
        c \in [1..Len(EntryOrder) -> {"absent"} \cup (EntryKinds \X BOOLEAN)]}

\* readdirSync(dirPath).filter(item => statSync(...).isDirectory()) inside
\* try/catch: nothing of a directory is kept when statSync throws
ScanDirectory(listing) ==
    IF ~listing.exists THEN <<>>
    ELSE IF \E i \in 1..Len(listing.entries) : listing.entries[i].kind = "dangling" THEN <<>>
    ELSE LET items == SelectSeq(listing.entries, LAMBDA e : e.kind = "directory")
         IN  [i \in 1..Len(items) |-> items[i].name]

NotScanned == [by |-> "none"]

\* scanProjectDirectories(): the names found under apps, then under libs
ScanProjectDirectories ==
    /\ projects = NotScanned
    /\ projects' = [by |-> "scanProjectDirectories",
                    list |-> ScanDirectory(appsDir) \o ScanDirectory(libsDir)]
    /\ UNCHANGED <<appsDir, libsDir>>
    /\ UNCHANGED <<tree, unreadable, analyzerVars, running, auditVars, discoveryVars, cacheVars, nxVars, fetchVars>>

\* what getProjectsFromDirectories pushes for the directories of one root
ProjectRecords(listing, type, root) ==
    LET items == ScanDirectory(listing)
    IN  [i \in 1..Len(items) |-> [name |-> items[i], type |-> type, path |-> root \o "/" \o items[i]]]

\* getProjectsFromDirectories(): {name, type, path} under apps, then under libs
GetProjectsFromDirectories ==
    /\ projects = NotScanned
    /\ projects' = [by |-> "getProjectsFromDirectories",
                    list |-> ProjectRecords(appsDir, "app", "apps") \o
                             ProjectRecords(libsDir, "lib", "libs")]
    /\ UNCHANGED <<appsDir, libsDir>>
    /\ UNCHANGED <<tree, unreadable, analyzerVars, running, auditVars, discoveryVars, cacheVars, nxVars, fetchVars>>

-----------------------------------------------------------------------------
(* nx-project-deps: getProjects and getProjectsFromConfig *)

\* workspace.json or nx.json on disk: not there, there with text JSON.parse
\* rejects, there without a projects property, there with a project map
ConfigStates == {"absent", "malformed", "empty", "projects"}

\* Object.keys(config.projects || {})
ConfigProjects(file, state) ==
    IF state = "projects" THEN <<file \o ":app">> ELSE <<>>

\* the workspaces of the model: `npx nx show projects --json` prints a list
\* that parses ("ok") or execSync or JSON.parse throws ("failed")
Workspaces ==
    [show : ToolOutcomes, shown : {<<>>, <<"web">>},
     workspaceJson : ConfigStates, nxJson : ConfigStates]

NoWorkspace == [show |-> "none"]

\* nx.json looked for before workspace.json
ConfigChoiceNxFirst(ws) ==
    IF ws.nxJson # "absent" THEN "nx.json"
    ELSE IF ws.workspaceJson # "absent" THEN "workspace.json"
    ELSE "none"

\* if (fs.existsSync(workspaceJsonPath)) ... else if (fs.existsSync(nxJsonPath)) ...
ConfigChoice(ws) ==
    IF ws.workspaceJson # "absent" THEN "workspace.json"
    ELSE IF ws.nxJson # "absent" THEN "nx.json"
    ELSE "none"

\* getProjects(): the listing command, its result or the catch block
GetProjects ==
    /\ discoverPc = "idle"
    /\ consulted' = <<"nx show projects">>
    /\ IF workspace.show = "ok"
       THEN /\ projects' = [by |-> "nx show projects", list |-> workspace.shown]
            /\ discoverPc' = "returned"
       ELSE /\ projects' = projects
            /\ discoverPc' = "config"
    /\ UNCHANGED <<workspace, appsDir, libsDir>>
    /\ UNCHANGED <<tree, unreadable, analyzerVars, running, cacheVars, nxVars, fetchVars, auditVars>>

\* getProjectsFromConfig(): the project map of the file that exists, or on to
\* the scan when there is none or reading it throws
GetProjectsFromConfig ==
    /\ discoverPc = "config"
    /\ LET file == ConfigChoice(workspace)
           state == IF file = "workspace.json" THEN workspace.workspaceJson ELSE workspace.nxJson
       IN  IF file = "none"
           THEN /\ discoverPc' = "scan"
                /\ UNCHANGED <<consulted, projects>>
           ELSE /\ consulted' = Append(consulted, file)
                /\ IF state = "malformed"
                   THEN /\ discoverPc' = "scan"
                        /\ projects' = projects
                   ELSE /\ projects' = [by |-> file, list |-> ConfigProjects(file, state)]
                        /\ discoverPc' = "returned"
    /\ UNCHANGED <<workspace, appsDir, libsDir>>
    /\ UNCHANGED <<tree, unreadable, analyzerVars, running, cacheVars, nxVars, fetchVars, auditVars>>

\* return this.scanProjectDirectories(), as the last resort of getProjectsFromConfig
GetProjectsByScan ==
    /\ discoverPc = "scan"
    /\ consulted' = Append(consulted, "directories")
    /\ projects' = [by |-> "scanProjectDirectories",
                    list |-> ScanDirectory(appsDir) \o ScanDirectory(libsDir)]
    /\ discoverPc' = "returned"
    /\ UNCHANGED <<workspace, appsDir, libsDir>>
    /\ UNCHANGED <<tree, unreadable, analyzerVars, running, cacheVars, nxVars, fetchVars, auditVars>>

-----------------------------------------------------------------------------
(* fetchLatestVersions *)

\* const batchSize = 5
BatchSize == 5

\* at most this many dependencies are looked up
MaxDeps == 6

DepPool == <<"d1", "d2", "d3", "d4", "d5", "d6", "d7", "d8">>

\* how the registry answers axios.get for a dependency: 200 with a version,
\* a response without one, or a rejection (network error, 404, the 5 s timeout)
Lookups == {"version", "unexpected", "rejected"}

\* every response counts as a success
ResponseOkAlways(lookup) == TRUE

\* response.status === 200 && response.data && response.data.version
ResponseOk(lookup) == lookup = "version"

\* the whole rest of the list taken as one batch
BatchWithoutLimit(list, i) == {list[k].name : k \in {k \in 1..Len(list) : i < k}}

\* depList.slice(i, i + batchSize), as the set of its names
Batch(list, i) == {list[k].name : k \in {k \in 1..Len(list) : i < k /\ k <= i + BatchSize}}

\* fetchLatestVersions(dependencies, skipLatest) up to the first Promise.all
FetchLatestVersions ==
    /\ fetchPc = "idle"
    /\ \E skipLatest \in BOOLEAN :
        /\ results' = EmptyMap
        /\ success' = 0
        /\ failed' = 0
        /\ batchStart' = 0
        /\ IF skipLatest THEN fetchPc' = "skipped" /\ pending' = {}
           ELSE IF depList = <<>> THEN fetchPc' = "returned" /\ pending' = {}
           ELSE fetchPc' = "batch" /\ pending' = Batch(depList, 0)
    /\ UNCHANGED depList
    /\ UNCHANGED <<tree, unreadable, analyzerVars, running, auditVars, discoveryVars, cacheVars, nxVars, scanVars>>

\* one lookup of the batch settles: the try block or the catch block runs
LookupSettles ==
    /\ fetchPc = "batch"
    /\ \E dep \in pending :
        LET lookup == (CHOOSE d \in SeqToSet(depList) : d.name = dep).lookup
        IN  /\ pending' = pending \ {dep}
            /\ IF lookup # "rejected" /\ ResponseOk(lookup)
               THEN /\ results' = Put(results, dep, "latest")
                    /\ success' = success + 1
                    /\ failed' = failed
               ELSE /\ failed' = failed + 1
                    /\ UNCHANGED <<results, success>>
    /\ UNCHANGED <<depList, batchStart, fetchPc>>
    /\ UNCHANGED <<tree, unreadable, analyzerVars, running, auditVars, discoveryVars, cacheVars, nxVars, scanVars>>

\* Promise.all resolves: pause before the next batch, or leave the loop and return
BatchSettled ==
    /\ fetchPc = "batch"
    /\ pending = {}
    /\ IF batchStart + BatchSize < Len(depList)
       THEN fetchPc' = "pause" /\ batchStart' = batchStart
       ELSE fetchPc' = "returned" /\ batchStart' = batchStart + BatchSize
    /\ UNCHANGED <<depList, pending, results, success, failed>>
    /\ UNCHANGED <<tree, unreadable, analyzerVars, running, auditVars, discoveryVars, cacheVars, nxVars, scanVars>>

\* the 500 ms pause is over: i += batchSize and the next batch starts
NextBatch ==
    /\ fetchPc = "pause"
    /\ batchStart' = batchStart + BatchSize
    /\ pending' = Batch(depList, batchStart + BatchSize)
    /\ fetchPc' = "batch"
    /\ UNCHANGED <<depList, results, success, failed>>
    /\ UNCHANGED <<tree, unreadable, analyzerVars, running, auditVars, discoveryVars, cacheVars, nxVars, scanVars>>

-----------------------------------------------------------------------------
(* nx-vuln-scanner: identifyDirectDependencies *)

\* at most this many advisories in the audit report
MaxAdvisories == 3

\* the severity levels of an npm audit report
Severities == {"info", "low", "moderate", "high", "critical"}

\* a lookup in severityOrder that finds no property gives undefined
Undefined == -1

\* const severityOrder = { critical: 0, high: 1, moderate: 2, low: 3 }
SeverityOrder(sev) ==
    CASE sev = "critical" -> 0
      [] sev = "high" -> 1
      [] sev = "moderate" -> 2
      [] sev = "low" -> 3
      [] OTHER -> Undefined

\* isSeverityHigher: severityOrder[sev1] < severityOrder[sev2], which is
\* false when either side is undefined (the comparison is with NaN)
IsSeverityHigher(sev1, sev2) ==
    /\ SeverityOrder(sev1) # Undefined
    /\ SeverityOrder(sev2) # Undefined
    /\ SeverityOrder(sev1) < SeverityOrder(sev2)

\* path.split('>')
RECURSIVE SplitPath(_)
SplitPath(s) ==
    IF ~Includes(s, ">") THEN <<s>>
    ELSE LET i == CHOOSE i \in 1..Len(s) :
                      Ch(s, i) = ">" /\ \A j \in 1..(i - 1) : Ch(s, j) # ">"
         IN  <<SubSeq(s, 1, i - 1)>> \o SplitPath(SubSeq(s, i + 1, Len(s)))

\* directDeps.has(depName): the position of the entry in the Map, 0 if none
EntryIndex(map, depName) ==
    IF \E i \in 1..Len(map) : map[i].name = depName
    THEN CHOOSE i \in 1..Len(map) : map[i].name = depName
    ELSE 0

\* the body of finding.paths.forEach for one path of one advisory
VisitPath(map, advisory, auditPath) ==
    LET pathElements == SplitPath(auditPath)
        depName == pathElements[1]
        at == EntryIndex(map, depName)
        entry == [name |-> depName, severity |-> advisory.severity, advisory |-> advisory.id]
    IN  IF Len(pathElements) \notin {1, 2} THEN map
        ELSE IF at = 0 THEN Append(map, entry)
        ELSE IF IsSeverityHigher(advisory.severity, map[at].severity)
        THEN [map EXCEPT ![at] = entry]
        ELSE map

\* the paths of the findings of one advisory, in order
RECURSIVE VisitPaths(_, _, _)
VisitPaths(map, advisory, paths) ==
    IF paths = <<>> THEN map
    ELSE VisitPaths(VisitPath(map, advisory, Head(paths)), advisory, Tail(paths))

\* Object.values(advisories).forEach(...): the Map directDeps, in insertion order
RECURSIVE DirectDepsMap(_, _)
DirectDepsMap(map, advs) ==
    IF advs = <<>> THEN map
    ELSE DirectDepsMap(VisitPaths(map, Head(advs), Head(advs).paths), Tail(advs))

\* the orders result.sort(...) can leave the entries in: by severityOrder with
\* ties in insertion order; any order when a difference is NaN, since the
\* comparator is then not consistent
SortedBySeverity(map) ==
    LET perms == {f \in [1..Len(map) -> 1..Len(map)] :
                     \A i, j \in 1..Len(map) : i # j => f[i] # f[j]}
        known == \A i \in 1..Len(map) : SeverityOrder(map[i].severity) # Undefined
        inOrder(f) == \A i, j \in 1..Len(map) : i < j =>
                         \/ SeverityOrder(map[f[i]].severity) < SeverityOrder(map[f[j]].severity)
                         \/ /\ SeverityOrder(map[f[i]].severity) = SeverityOrder(map[f[j]].severity)
                            /\ f[i] < f[j]
    IN  {[i \in 1..Len(map) |-> map[f[i]]] : f \in {g \in perms : ~known \/ inOrder(g)}}

NotIdentified == [by |-> "none"]

\* identifyDirectDependencies(auditData)
IdentifyDirectDependencies ==
    /\ directDeps = NotIdentified
    /\ \E sorted \in SortedBySeverity(DirectDepsMap(<<>>, advisories)) :
         directDeps' = [by |-> "identifyDirectDependencies", list |-> sorted]
    /\ UNCHANGED advisories
    /\ UNCHANGED <<tree, unreadable, analyzerVars, running, cacheVars, nxVars, scanVars,
                   fetchVars, discoveryVars>>

\* the paths of the findings of an advisory: the package itself, a package one
\* level below a direct dependency, packages further down
PathLists ==
    {<<"lodash">>, <<"mocha>minimist">>, <<"express>qs>minimist">>,
     <<"express>body>qs", "lodash">>, <<"lodash>minimist", "mocha">>}

\* the advisories of the audit report, in the order of Object.values
AdvisoryLists ==
    UNION {{[i \in 1..n |-> [id |-> i, severity |-> s[i], paths |-> p[i]]] :
               s \in [1..n -> Severities], p \in [1..n -> PathLists]} :
           n \in 0..MaxAdvisories}

-----------------------------------------------------------------------------
(* The external commands of the analyzers: execSync *)

\* the analyzers that run an external command, and the first command of each
ExecAnalyzers ==
    {"findCircularDependencies", "generateDependencyGraph", "findUnusedDependencies",
     "findOutdatedDependencies", "findSecurityVulnerabilities"}

FirstCommand(analyzer) ==
    CASE analyzer = "findCircularDependencies" -> "madge"
      [] analyzer = "generateDependencyGraph" -> "dependency-cruiser"
      [] analyzer = "findUnusedDependencies" -> "depcheck"
      [] analyzer = "findOutdatedDependencies" -> "npm outdated"
      [] analyzer = "findSecurityVulnerabilities" -> "npm audit"

\* the packages findUnusedDependencies has not run depcheck on
Unchecked == SelectSeq(AnalyzeStructure(unreadable), LAMBDA p : p \notin DOMAIN result.results)

\* an analyzer is called and reaches its first execSync, which blocks the
\* process until the command exits; no timeout is passed
ExecSyncCall ==
    /\ pc = "idle"
    /\ \E analyzer \in ExecAnalyzers :
        /\ request' = [via |-> "call", query |-> <<>>]
        /\ route' = Route(analyzer, NoArg)
        /\ IF analyzer = "findUnusedDependencies"
           THEN /\ result' = [kind |-> "unused", results |-> EmptyMap]
                /\ IF AnalyzeStructure(unreadable) = <<>>
                   THEN pc' = "done" /\ running' = "none"
                   ELSE pc' = "execSync" /\ running' = "depcheck"
           ELSE /\ result' = NoResult
                /\ pc' = "execSync"
                /\ running' = FirstCommand(analyzer)
    /\ UNCHANGED <<tree, unreadable, madgeRun, cruiserRun, dfsVars>>
    /\ UNCHANGED <<cacheVars, nxVars, scanVars, fetchVars, auditVars, discoveryVars>>

\* the command exits and execSync returns or throws
ExecSyncReturns ==
    /\ pc = "execSync"
    /\ \E outcome \in NpmOutcomes :
        /\ running \in {"npm outdated", "npm audit"} \/ outcome \in ToolOutcomes
        /\ CASE running = "madge" ->
                  /\ madgeRun' = outcome
                  /\ IF outcome = "ok"
                     THEN result' = [kind |-> "madge"] /\ pc' = "done" /\ running' = "none"
                     ELSE result' = result /\ pc' = "execSync" /\ running' = "dependency-cruiser"
                  /\ UNCHANGED <<cruiserRun, adjacencyList, nodes>>
             [] running = "dependency-cruiser" ->
                  LET graph == GenerateDependencyGraph(tree, unreadable, NoArg, outcome)
                  IN  /\ cruiserRun' = outcome
                      /\ running' = "none"
                      /\ IF route.analyzer = "generateDependencyGraph"
                         THEN /\ result' = graph
                              /\ pc' = "done"
                              /\ UNCHANGED <<adjacencyList, nodes>>
                         ELSE IF graph.kind # "graph"
                         THEN /\ result' = Throw("TypeError")
                              /\ pc' = "done"
                              /\ UNCHANGED <<adjacencyList, nodes>>
                         ELSE /\ adjacencyList' = BuildAdjacencyList(graph.edges)
                              /\ nodes' = AdjacencyKeys(graph.edges)
                              /\ result' = NoResult
                              /\ pc' = "forEach"
                      /\ UNCHANGED madgeRun
             [] running = "depcheck" ->
                  LET p == Unchecked[1]
                  IN  /\ result' = [result EXCEPT !.results =
                                       Put(@, p, ProcessPackage(tree, p, outcome = "failed"))]
                      /\ IF Len(Unchecked) = 1
                         THEN pc' = "done" /\ running' = "none"
                         ELSE pc' = "execSync" /\ running' = "depcheck"
                      /\ UNCHANGED <<madgeRun, cruiserRun, adjacencyList, nodes>>
             [] running = "npm outdated" ->
                  /\ result' = FindOutdatedDependencies(outcome)
                  /\ pc' = "done" /\ running' = "none"
                  /\ UNCHANGED <<madgeRun, cruiserRun, adjacencyList, nodes>>
             [] running = "npm audit" ->
                  /\ result' = FindSecurityVulnerabilities(outcome)
                  /\ pc' = "done" /\ running' = "none"
                  /\ UNCHANGED <<madgeRun, cruiserRun, adjacencyList, nodes>>
    /\ UNCHANGED <<tree, unreadable, request, route, stack, visited, path, cycles, allCycles>>
    /\ UNCHANGED <<cacheVars, nxVars, scanVars, fetchVars, auditVars, discoveryVars>>

-----------------------------------------------------------------------------
(* Specifications *)

\* the cache is empty and no cached route was requested
CacheIdle ==
    /\ cache = EmptyMap
    /\ cacheTime = EmptyMap
    /\ now = 0
    /\ calls = [r \in Requests |-> NoCall]
    /\ edits = 0
    /\ invalidated = [message |-> "none", key |-> NoArg]

\* analyzeProject was not called
NxIdle ==
    /\ imports = <<>>
    /\ rootDeps = {}
    /\ report = NoReport

\* no directory was scanned
ScanIdle ==
    /\ appsDir = Missing
    /\ libsDir = Missing
    /\ projects = NotScanned

\* fetchLatestVersions was not called
FetchIdle ==
    /\ depList = <<>>
    /\ batchStart = 0
    /\ pending = {}
    /\ results = EmptyMap
    /\ success = 0
    /\ failed = 0
    /\ fetchPc = "idle"

\* identifyDirectDependencies was not called
AuditIdle ==
    /\ advisories = <<>>
    /\ directDeps = NotIdentified

\* getProjects was not called
DiscoveryIdle ==
    /\ workspace = NoWorkspace
    /\ consulted = <<>>
    /\ discoverPc = "idle"

\* nothing has happened outside the analyzers
BesideIdle ==
    /\ running = "none"
    /\ AuditIdle
    /\ DiscoveryIdle
    /\ CacheIdle
    /\ NxIdle
    /\ ScanIdle
    /\ FetchIdle

\* no request has been made
InitRun ==
    /\ pc = "idle"
    /\ madgeRun = "none"
    /\ cruiserRun = "none"
    /\ adjacencyList = [n \in PkgNames |-> <<>>]
    /\ nodes = <<>>
    /\ stack = <<>>
    /\ visited = {}
    /\ path = {}
    /\ cycles = <<>>
    /\ allCycles = <<>>
    /\ result = NoResult
    /\ request = [via |-> "none", query |-> <<>>]
    /\ route = NoRoute

\* the steps of findCircularDependencies
CircularSteps ==
    \/ FindCircularDependencies
    \/ FindCyclesCall
    \/ DfsCycle
    \/ DfsVisited
    \/ DfsDescend
    \/ DfsNeighbor
    \/ DfsReturn
    \/ FindCyclesReturn
    \/ ReturnAllCycles

\* the trees the cycle detection is run on: one version string, any kinds
CycleInit ==
    /\ unreadable \in SUBSET PkgNames
    /\ tree \in SubsetsUpTo(Declarations(PkgNames \ unreadable, DepNames, {"1.0.0"}), MaxDecls)
    /\ InitRun
    /\ BesideIdle

CycleNext ==
    \/ CallFindCircularDependencies
    \/ CircularSteps

\* the request runs to completion: a step that can be taken is taken
CycleSpec == CycleInit /\ [][CycleNext]_vars /\ WF_vars(CycleNext)

\* the names the version report is checked on: an external and an internal one
VersionNames == {"axios", "core"}

\* the trees the version report is run on: any versions, any kinds
VersionInit ==
    /\ unreadable \in SUBSET PkgNames
    /\ tree \in {t \in SubsetsUpTo(Declarations(PkgNames \ unreadable, VersionNames, Versions),
                                   MaxDecls) : WellFormed(t)}
    /\ InitRun
    /\ BesideIdle

VersionNext == CallFindVersionInconsistencies

VersionSpec == VersionInit /\ [][VersionNext]_vars

\* the tree of the query runs: core and utils depend on each other, api on
\* axios and on both of them
SampleTree ==
    {[owner |-> "core", kind |-> "dependencies", name |-> "utils", version |-> "1.0.0"],
     [owner |-> "utils", kind |-> "dependencies", name |-> "core", version |-> "1.0.0"],
     [owner |-> "api", kind |-> "dependencies", name |-> "axios", version |-> "1.0.0"],
     [owner |-> "api", kind |-> "dependencies", name |-> "utils", version |-> "1.0.0"],
     [owner |-> "api", kind |-> "devDependencies", name |-> "core", version |-> "^1.0.0"]}

QueryInit ==
    /\ unreadable \in {{}, {"core"}}
    /\ tree = {d \in SampleTree : d.owner \notin unreadable}
    /\ InitRun
    /\ BesideIdle

QueryNext ==
    \/ PostQuery
    \/ PostQueryWithoutText
    \/ CallGetProjectDependencies
    \/ CallFindUnusedDependencies
    \/ CallGenerateDependencyGraph
    \/ CircularSteps

QuerySpec == QueryInit /\ [][QueryNext]_vars /\ WF_vars(QueryNext)

\* the file tree changes under the running server: core's package.json
\* becomes unreadable, or readable again
EditFileTree ==
    /\ edits < MaxEdits
    /\ edits' = edits + 1
    /\ unreadable' = IF "core" \in unreadable THEN {} ELSE {"core"}
    /\ tree' = {d \in SampleTree : d.owner \notin unreadable'}
    /\ UNCHANGED <<cache, cacheTime, now, calls, invalidated>>
    /\ UNCHANGED <<analyzerVars, running, auditVars, discoveryVars, nxVars, scanVars, fetchVars>>

\* the cached routes, requested while earlier requests are at their await
CacheInit ==
    /\ unreadable = {}
    /\ tree = SampleTree
    /\ InitRun
    /\ BesideIdle

CacheNext ==
    \/ GetCachedData
    \/ GetCachedDataResume
    \/ PostCacheInvalidate
    \/ Tick
    \/ EditFileTree

CacheSpec == CacheInit /\ [][CacheNext]_vars

\* analyzeProject on any source files and any root manifest within the bounds
NxInit ==
    /\ unreadable = {}
    /\ tree = {}
    /\ InitRun
    /\ running = "none"
    /\ AuditIdle
    /\ DiscoveryIdle
    /\ CacheIdle
    /\ ScanIdle
    /\ FetchIdle
    /\ imports \in SeqsUpTo(Specifiers, MaxImports)
    /\ rootDeps \in SubsetsUpTo([kind : Kinds, name : RootNames, version : {"1.0.0"}],
                                MaxRootDecls)
    /\ report = NoReport

NxNext == AnalyzeProject

NxSpec == NxInit /\ [][NxNext]_vars

\* the directory scans on any content of apps/ and libs/
ScanInit ==
    /\ unreadable = {}
    /\ tree = {}
    /\ InitRun
    /\ running = "none"
    /\ AuditIdle
    /\ DiscoveryIdle
    /\ CacheIdle
    /\ NxIdle
    /\ FetchIdle
    /\ appsDir \in Listings
    /\ libsDir \in Listings
    /\ projects = NotScanned

ScanNext ==
    \/ ScanProjectDirectories
    \/ GetProjectsFromDirectories

ScanSpec == ScanInit /\ [][ScanNext]_vars

\* the dependencies d1, d2, ... with any answers of the registry
DepLists ==
    UNION {{[i \in 1..n |-> [name |-> DepPool[i], lookup |-> f[i]]] : f \in [1..n -> Lookups]} :
           n \in 0..MaxDeps}

FetchInit ==
    /\ unreadable = {}
    /\ tree = {}
    /\ InitRun
    /\ running = "none"
    /\ AuditIdle
    /\ DiscoveryIdle
    /\ CacheIdle
    /\ NxIdle
    /\ ScanIdle
    /\ depList \in DepLists
    /\ batchStart = 0
    /\ pending = {}
    /\ results = EmptyMap
    /\ success = 0
    /\ failed = 0
    /\ fetchPc = "idle"

FetchNext ==
    \/ FetchLatestVersions
    \/ LookupSettles
    \/ BatchSettled
    \/ NextBatch

\* every lookup settles (axios rejects after its timeout) and every timer fires
FetchSpec == FetchInit /\ [][FetchNext]_vars /\ WF_vars(FetchNext)

\* the steps of the built-in cycle detection after the graph was built
BuiltInSteps ==
    \/ FindCyclesCall
    \/ DfsCycle
    \/ DfsVisited
    \/ DfsDescend
    \/ DfsNeighbor
    \/ DfsReturn
    \/ FindCyclesReturn
    \/ ReturnAllCycles

\* the analyzers with their external commands, on the sample tree with any
\* package.json unreadable
ExecInit ==
    /\ unreadable \in SUBSET PkgNames
    /\ tree = {d \in SampleTree : d.owner \notin unreadable}
    /\ InitRun
    /\ BesideIdle

ExecNext ==
    \/ ExecSyncCall
    \/ ExecSyncReturns
    \/ BuiltInSteps

\* the steps of the server are taken; nothing makes an external command exit
ExecSpec == ExecInit /\ [][ExecNext]_vars /\ WF_vars(ExecSyncCall \/ BuiltInSteps)

\* identifyDirectDependencies on every audit report of up to MaxAdvisories advisories
AuditInit ==
    /\ unreadable = {}
    /\ tree = {}
    /\ InitRun
    /\ running = "none"
    /\ CacheIdle
    /\ NxIdle
    /\ ScanIdle
    /\ FetchIdle
    /\ DiscoveryIdle
    /\ advisories \in AdvisoryLists
    /\ directDeps = NotIdentified

AuditNext == IdentifyDirectDependencies

AuditSpec == AuditInit /\ [][AuditNext]_vars

\* getProjects on every workspace of the model, with apps/ in any state
DiscoverInit ==
    /\ unreadable = {}
    /\ tree = {}
    /\ InitRun
    /\ running = "none"
    /\ CacheIdle
    /\ NxIdle
    /\ FetchIdle
    /\ AuditIdle
    /\ workspace \in Workspaces
    /\ consulted = <<>>
    /\ discoverPc = "idle"
    /\ appsDir \in Listings
    /\ libsDir = Missing
    /\ projects = NotScanned

DiscoverNext ==
    \/ GetProjects
    \/ GetProjectsFromConfig
    \/ GetProjectsByScan

DiscoverSpec == DiscoverInit /\ [][DiscoverNext]_vars

\* getProjectDependencies on every tree of up to MaxDecls declarations
ProjectInit ==
    /\ unreadable \in SUBSET PkgNames
    /\ tree \in SubsetsUpTo(Declarations(PkgNames \ unreadable, DepNames, {"1.0.0"}), MaxDecls)
    /\ InitRun
    /\ BesideIdle

ProjectNext == CallGetProjectDependencies

ProjectSpec == ProjectInit /\ [][ProjectNext]_vars

\* a free-text query after GET /api/unused was requested MaxCalls times, with
\* the file tree changed in between or not
CacheQueryInit == CacheInit

CacheQueryNext ==
    \/ /\ GetCachedData
       /\ \A r \in Requests :
             calls'[r] # NoCall => calls'[r].endpoint = [route |-> "unused", arg |-> NoArg]
    \/ GetCachedDataResume
    \/ EditFileTree
    \/ /\ \A r \in Requests : calls[r] # NoCall /\ calls[r].state = "done"
       /\ PostQuery

CacheQuerySpec == CacheQueryInit /\ [][CacheQueryNext]_vars

-----------------------------------------------------------------------------
(* The internal-edge graph, described independently of the traversal *)

EdgeSet == {<<e.from, e.to>> : e \in SeqToSet(GraphEdges(tree, unreadable))}

Distinct(s) == \A i \in 1..Len(s), j \in 1..Len(s) : s[i] = s[j] => i = j

\* the directed cycles of a set of edges, each once (smallest name first)
DirectedCycles(E) ==
    {s \in UNION {[1..n -> PkgNames] : n \in 1..Cardinality(PkgNames)} :
        /\ Distinct(s)
        /\ \A i \in 1..Len(s) : Rank(s[1]) <= Rank(s[i])
        /\ \A i \in 1..(Len(s) - 1) : <<s[i], s[i + 1]>> \in E
        /\ <<s[Len(s)], s[1]>> \in E}

OnCycle(E) == UNION {SeqToSet(s) : s \in DirectedCycles(E)}

BuiltInReturned == pc = "done" /\ result.kind = "cycles"

-----------------------------------------------------------------------------
(* Claims about findCircularDependencies *)

\* C2: when the internal-edge graph has exactly one directed cycle, the
\* built-in detection returns exactly one cycle, not one per start node.
C2_OneCycleReportedOnce ==
    (BuiltInReturned /\ Cardinality(DirectedCycles(EdgeSet)) = 1)
        => Len(result.value) = 1

\* C3: the built-in detection returns the empty list exactly when the
\* internal-edge graph is acyclic, and every package on some cycle appears in
\* at least one reported cycle.
C3_EmptyIffAcyclic ==
    BuiltInReturned =>
        /\ (result.value = <<>>) <=> (DirectedCycles(EdgeSet) = {})
        /\ \A p \in OnCycle(EdgeSet) :
             \E i \in 1..Len(result.value) : p \in SeqToSet(result.value[i])

\* a run on a cycle through three packages has returned its cycles
C3_Witness ==
    /\ BuiltInReturned
    /\ \E s \in DirectedCycles(EdgeSet) : Len(s) = Cardinality(PkgNames)
    /\ result.value # <<>>

\* C4: no two reported cycles have the same set of node names.
C4_NoTwoCyclesSameMembers ==
    BuiltInReturned =>
        \A i \in 1..Len(result.value), j \in 1..Len(result.value) :
            SeqToSet(result.value[i]) = SeqToSet(result.value[j]) => i = j

\* C5: every reported cycle is a sequence of pairwise distinct package names;
\* the start node is not repeated at its end.
C5_CycleNamesDistinct ==
    BuiltInReturned =>
        \A i \in 1..Len(result.value) : Distinct(result.value[i])

\* no pathArr of a pending call of dfs holds a node twice
PathsDistinct == \A k \in 1..Len(stack) : Distinct(stack[k].pathArr)

\* C6: during the DFS the current path never holds the same node twice, and
\* the built-in detection terminates on every graph (cycles,
\* self-dependencies, duplicate edges, shared sub-paths).
C6_TerminatesWithSimplePaths == []PathsDistinct /\ <>(pc = "done")

\* the detection has finished on a graph with a self-dependency, a duplicate
\* edge and a cycle between two packages
C6_Witness ==
    /\ BuiltInReturned
    /\ \E p \in PkgNames : <<p, p>> \in EdgeSet
    /\ \E p \in PkgNames, q \in PkgNames :
          p # q /\ <<p, q>> \in EdgeSet /\ <<q, p>> \in EdgeSet

\* C10: whenever madge fails, findCircularDependencies returns the list of
\* the built-in detection, whatever dependency-cruiser did; it does not raise.
C10_FallbackAlwaysReturnsCycles ==
    (pc = "done" /\ madgeRun = "failed") => result.kind = "cycles"

-----------------------------------------------------------------------------
(* Claims about findVersionInconsistencies *)

\* the version strings declared for d in the manifests of the discovered packages
DeclaredVersions(d) ==
    {x.version : x \in {y \in tree : y.name = d /\ y.owner \notin unreadable}}

\* C1: findVersionInconsistencies flags a dependency name exactly when more
\* than one distinct version string is declared for it over all discovered
\* packages and all three kinds; versions are compared as exact strings.
C1_FlaggedIffSeveralVersions ==
    (pc = "done" /\ result.kind = "inconsistencies") =>
        \A d \in DepNames :
            d \in DOMAIN result.details <=> Cardinality(DeclaredVersions(d)) > 1

\* a name declared as ^1.0.0 in the dependencies of one package and as 1.0.0
\* in the devDependencies of another has been flagged
C1_Witness ==
    /\ pc = "done" /\ result.kind = "inconsistencies"
    /\ \E d \in DOMAIN result.details : \E x \in tree, y \in tree :
          /\ x.name = d /\ y.name = d /\ x.owner # y.owner
          /\ x.kind = "dependencies" /\ y.kind = "devDependencies"
          /\ x.version = "^1.0.0" /\ y.version = "1.0.0"

-----------------------------------------------------------------------------
(* Claims about processQuery and the operations that take a name *)

\* the routes in the order of their priority
RoutePriority ==
    <<"getProjectDependencies", "findPackagesUsingDependency",
      "findVersionInconsistencies", "findUnusedDependencies",
      "findOutdatedDependencies", "findSecurityVulnerabilities",
      "findCircularDependencies", "generateDependencyGraph">>

\* the pattern of each route
Matches(analyzer, lower) ==
    CASE analyzer = "getProjectDependencies" ->
            \/ CaptureStart(lower, "projectDepsMatch") # 0
            \/ /\ MentionsDependencies(lower) /\ MentionsProject(lower)
               /\ CaptureStart(lower, "projectMatch") # 0
      [] analyzer = "findPackagesUsingDependency" ->
            MentionsUsage(lower) /\ CaptureStart(lower, "dependencyMatch") # 0
      [] analyzer = "findVersionInconsistencies" -> AsksInconsistencies(lower)
      [] analyzer = "findUnusedDependencies" -> AsksUnused(lower)
      [] analyzer = "findOutdatedDependencies" -> AsksOutdated(lower)
      [] analyzer = "findSecurityVulnerabilities" -> AsksSecurity(lower)
      [] analyzer = "findCircularDependencies" -> AsksCircular(lower)
      [] analyzer = "generateDependencyGraph" -> AsksGraph(lower)

FirstMatching(lower) ==
    LET hits == {i \in 1..Len(RoutePriority) : Matches(RoutePriority[i], lower)}
    IN  IF hits = {} THEN "analyzeStructure"
        ELSE RoutePriority[CHOOSE i \in hits : \A j \in hits : i <= j]

QueryRouted == pc # "idle" /\ request.via = "query" /\ request.query # <<>>

\* C7: processQuery delegates to the first route, in the fixed order, whose
\* pattern matches the query, and to analyzeStructure when none matches.
C7_FirstMatchWins ==
    QueryRouted => route.analyzer = FirstMatching(ToLowerCase(request.query[1]))

\* a query that asks for unused dependencies and names a project went to
\* getProjectDependencies
C7_Witness ==
    /\ QueryRouted
    /\ AsksUnused(ToLowerCase(request.query[1]))
    /\ route.analyzer = "getProjectDependencies"

\* C8: a query never fails: whatever the request holds, processQuery ends
\* with a result and raises no error.
C8_QueryNeverFails ==
    (pc = "done" /\ request.via = "query") => result.kind # "throw"

\* the name matches no discovered package, in any case of its letters
UnknownName(name) ==
    \A p \in SeqToSet(AnalyzeStructure(unreadable)) : ToLowerCase(p) # ToLowerCase(name)

\* C9: getProjectDependencies, findUnusedDependencies(package) and
\* generateDependencyGraph(package) answer a name that matches no discovered
\* package with the result {error, availableProjects}; none of them raises.
C9_UnknownNameIsStructuredResult ==
    ( /\ pc = "done"
      /\ route.analyzer \in {"getProjectDependencies", "findUnusedDependencies",
                             "generateDependencyGraph"}
      /\ route.arg # NoArg
      /\ UnknownName(route.arg[1]) )
        => (result.kind = "error" /\ "availableProjects" \in DOMAIN result)

-----------------------------------------------------------------------------
(* The result cache *)

\* C11: over an unchanged file tree, a value getCachedData returns from the
\* cache equals what a fresh run of the analysis of that request would
\* produce at that moment.
C11_CachedEqualsFresh ==
    edits = 0 =>
        \A r \in Requests :
            (calls[r].state = "done" /\ calls[r].fromCache)
                => calls[r].data = DataFn(calls[r].endpoint, tree, unreadable)

\* the call of request r ran dataFn and stored its data
Computed(r) ==
    calls[r].state = "done" /\ ~calls[r].fromCache /\ calls[r].data.kind # "throw"

C13_InvalidationRemovesExactlyTheKey ==
    [][(calls' = calls /\ now' = now /\ edits' = edits) =>
          IF invalidated'.key = NoArg
          THEN DOMAIN cache' = {} /\ DOMAIN cacheTime' = {}
          ELSE /\ DOMAIN cache' = DOMAIN cache \ {invalidated'.key[1]}
               /\ DOMAIN cacheTime' = DOMAIN cacheTime \ {invalidated'.key[1]}
               /\ \A k \in DOMAIN cache' : cache'[k] = cache[k] /\ cacheTime'[k] = cacheTime[k]
      ]_vars

\* a cached key was invalidated while another key stays cached
C13_Witness ==
    /\ invalidated.key # NoArg
    /\ invalidated.key[1] \notin DOMAIN cache
    /\ \E r \in Requests : Computed(r) /\ calls[r].key = invalidated.key[1]
    /\ \E r \in Requests : Computed(r) /\ calls[r].key \in DOMAIN cache

-----------------------------------------------------------------------------
(* analyzeProject *)

\* the names declared in the root manifest
Declared == {d.name : d \in rootDeps}

\* the import names analyzeProject is given by the scan
ImportNames == SeqToSet(GetProjectImports(imports))

\* the declared names an import name accounts for: itself, or for an '@' name
\* without an exact match the declared packages of its scope
Contribution(n) ==
    IF n \in Declared THEN {n}
    ELSE IF StartsWith(n, "@") THEN {dep \in Declared : StartsWith(dep, Split(n)[1] \o "/")}
    ELSE {}

Candidate(specifier) ==
    LET segments == Split(specifier)
    IN  IF StartsWith(specifier, "@") /\ Len(segments) >= 2
        THEN segments[1] \o "/" \o segments[2]
        ELSE segments[1]

\* C15: the candidate of '@scope/name/sub' is '@scope/name'; when it equals a
\* declared name only that dependency is matched, and the other declared
\* packages of the scope are matched only when there is no exact match.
C15_ScopedExactMatchOnly ==
    report # NoReport =>
        DOMAIN report.dependencies =
            UNION {LET cand == Candidate(imports[i])
                   IN  IF cand \in Declared THEN {cand}
                       ELSE IF StartsWith(cand, "@")
                       THEN {dep \in Declared : StartsWith(dep, Split(cand)[1] \o "/")}
                       ELSE {} :
                   i \in {i \in 1..Len(imports) : ~StartsWith(imports[i], ".")}}

-----------------------------------------------------------------------------
(* The occurrences of the version report *)

\* the declarations of dependency d in the manifests that are read
DeclarationsOf(d) == {x \in tree : x.name = d /\ x.owner \notin unreadable}

\* C16: for every flagged dependency the occurrence list has exactly one
\* entry (package, version, kind) per declaration of it, declarations with
\* equal versions included, and `total` is the number of flagged names.
C16_OneOccurrencePerDeclaration ==
    result.kind = "inconsistencies" =>
        /\ result.total = Cardinality(DOMAIN result.details)
        /\ \A d \in DOMAIN result.details :
             LET occ == result.details[d]
             IN  /\ Len(occ) = Cardinality(DeclarationsOf(d))
                 /\ {<<occ[i].package, occ[i].version, occ[i].type>> : i \in 1..Len(occ)}
                      = {<<x.owner, x.version, TypeOf(x.kind)>> : x \in DeclarationsOf(d)}

\* a flagged dependency with three declarations, two of them with the same version
C16_Witness ==
    /\ result.kind = "inconsistencies"
    /\ \E d \in DOMAIN result.details :
         /\ Len(result.details[d]) = 3
         /\ Cardinality({x.version : x \in DeclarationsOf(d)}) = 2

-----------------------------------------------------------------------------
(* Discovery *)

\* C17: analyzeStructure returns every package directory, those with a
\* missing or malformed package.json included.
C17_UnreadableManifestKept ==
    result.kind = "structure" => SeqToSet(result.packages) = PkgNames

\* the number of subdirectories in a listing
DirectoryCount(listing) ==
    Cardinality({i \in 1..Len(listing.entries) : listing.entries[i].kind = "directory"})

\* the project names of a scan result
ProjectNames ==
    [i \in 1..Len(projects.list) |->
        IF projects.by = "scanProjectDirectories" THEN projects.list[i] ELSE projects.list[i].name]

\* C18: the directory scan returns one project per immediate subdirectory of
\* apps and libs, with or without a manifest, and no project name twice.
C18_OneProjectPerDirectory ==
    projects # NotScanned =>
        /\ Len(projects.list) = DirectoryCount(appsDir) + DirectoryCount(libsDir)
        /\ Distinct(ProjectNames)

-----------------------------------------------------------------------------
(* fetchLatestVersions *)

\* the dependencies the registry answers with a version
Succeeded == {depList[i].name : i \in {i \in 1..Len(depList) : depList[i].lookup = "version"}}

\* C19: fetchLatestVersions completes whatever the lookups do, returns a
\* version for exactly the dependencies whose lookup succeeded, and has
\* counted every dependency once as a success or a failure.
C19_FailedLookupAffectsOnlyItsItem ==
    /\ <>(fetchPc \in {"returned", "skipped"})
    /\ [](fetchPc = "returned" =>
            /\ DOMAIN results = Succeeded
            /\ success = Cardinality(Succeeded)
            /\ success + failed = Len(depList))

\* a call with two batches has returned: the first batch had a failure and a
\* success, the second a success
C19_Witness ==
    /\ fetchPc = "returned"
    /\ Len(depList) > BatchSize
    /\ \E i \in 1..BatchSize : depList[i].lookup = "rejected"
    /\ \E i \in 1..BatchSize : depList[i].lookup = "version" /\ depList[i].name \in DOMAIN results
    /\ depList[BatchSize + 1].lookup = "version"
    /\ depList[BatchSize + 1].name \in DOMAIN results

-----------------------------------------------------------------------------
(* External commands *)

\* C20: an analysis that waits for an external command eventually returns,
\* even when the command never exits.
C20_EveryAnalysisReturns == (pc = "execSync") ~> (pc = "done")

-----------------------------------------------------------------------------
(* findUnusedDependencies *)

\* the names package p declares in one section of its package.json
SectionNames(p, kind) == {d.name : d \in {e \in tree : e.owner = p /\ e.kind = kind}}

\* the list has every name of the set, each once
ListsExactly(list, names) == SeqToSet(list) = names /\ Len(list) = Cardinality(names)

\* the entry of package p when depcheck failed for it, and when it did not
\* (depcheck's own lists are empty in the model)
EntryFor(entry, p, depcheckFailed) ==
    IF depcheckFailed
    THEN /\ entry.note
         /\ ListsExactly(entry.dependencies, SectionNames(p, "dependencies"))
         /\ ListsExactly(entry.devDependencies, SectionNames(p, "devDependencies"))
    ELSE /\ ~entry.note
         /\ entry.dependencies = <<>>
         /\ entry.devDependencies = <<>>

\* C21: findUnusedDependencies treats each package on its own: whatever the
\* set of packages depcheck fails for, the entry of a package depcheck failed
\* for lists all its declared dependencies and devDependencies with the note,
\* the entry of any other package has depcheck's lists and no note; and the
\* result a request got is one of these.
C21_PackagesIndependent ==
    /\ \A failing \in SUBSET PkgNames, arg \in {NoArg} \cup {<<n>> : n \in PkgNames} :
         LET r == FindUnusedDependencies(tree, unreadable, arg, failing)
         IN  r.kind = "unused" =>
               \A p \in DOMAIN r.results : EntryFor(r.results[p], p, p \in failing)
    /\ (pc = "done" /\ result.kind = "unused") =>
         \E failing \in SUBSET PkgNames :
            \A p \in DOMAIN result.results : EntryFor(result.results[p], p, p \in failing)

\* all packages were examined, depcheck failed for api only
C21_Witness ==
    /\ pc = "done" /\ result.kind = "unused"
    /\ DOMAIN result.results = PkgNames
    /\ result.results["api"].note
    /\ result.results["api"].devDependencies # <<>>
    /\ ~result.results["core"].note

-----------------------------------------------------------------------------
(* identifyDirectDependencies *)

\* the levels of an audit report, from the least to the most severe
Level(sev) ==
    CASE sev = "info" -> 0
      [] sev = "low" -> 1
      [] sev = "moderate" -> 2
      [] sev = "high" -> 3
      [] sev = "critical" -> 4

\* the advisories with a path of one or two elements that starts with the name
AdvisoriesOf(depName) ==
    {i \in 1..Len(advisories) :
        \E k \in 1..Len(advisories[i].paths) :
            LET pathElements == SplitPath(advisories[i].paths[k])
            IN  Len(pathElements) \in {1, 2} /\ pathElements[1] = depName}

DirectNames == {"lodash", "mocha", "express", "minimist", "qs", "body"}

\* C22: identifyDirectDependencies returns one entry for every name with a
\* path of one or two elements and none for any other name, and the entry has
\* the highest severity among the advisories with such a path for the name.
C22_HighestSeverityPerName ==
    directDeps # NotIdentified =>
        LET list == directDeps.list
        IN  /\ \A i, j \in 1..Len(list) : i # j => list[i].name # list[j].name
            /\ {list[i].name : i \in 1..Len(list)} = {n \in DirectNames : AdvisoriesOf(n) # {}}
            /\ \A i \in 1..Len(list) :
                  \A a \in AdvisoriesOf(list[i].name) :
                      Level(advisories[a].severity) <= Level(list[i].severity)

-----------------------------------------------------------------------------
(* The input of the built-in cycle detection *)

\* the packages analyzeStructure finds
Discovered == PkgNames \ unreadable

\* C23: every cycle the built-in detection reports follows real internal
\* edges: each consecutive pair (x, y) is a declared dependency of package x
\* on the discovered package y, and every name in it is a discovered package.
C23_CyclesFollowInternalEdges ==
    BuiltInReturned =>
        \A i \in 1..Len(result.value) :
            LET c == result.value[i]
            IN  /\ \A k \in 1..Len(c) : c[k] \in Discovered
                /\ \A k \in 1..(Len(c) - 1) :
                      \E d \in tree : d.owner = c[k] /\ d.name = c[k + 1]

\* a cycle was reported for a tree that also declares an external dependency
C23_Witness ==
    /\ BuiltInReturned
    /\ result.value # <<>>
    /\ \E d \in tree : d.name \notin Discovered

\* C24: the built-in graph has an edge owner -> target for every declared
\* dependency of any of the three kinds whose target is a discovered package.
C24_EdgeForEveryKind ==
    (pc \in {"forEach", "dfs"} \/ BuiltInReturned) =>
        \A d \in tree :
            (d.owner \in Discovered /\ d.name \in Discovered) =>
                \E j \in 1..Len(adjacencyList[d.owner]) : adjacencyList[d.owner][j] = d.name

-----------------------------------------------------------------------------
(* getProjectDependencies *)

\* C25: getProjectDependencies classifies a declaration as internal exactly
\* when its name is the name of another discovered package (its own name does
\* not count), every declaration is internal or external and never both, and
\* the counts of the two add up to the total of the three sections.
C25_InternalIffOtherPackage ==
    (pc = "done" /\ result.kind = "projectDependencies") =>
        LET inList(d, list) == \E i \in 1..Len(list) : list[i] = d
        IN  /\ \A i \in 1..Len(result.all) :
                  LET d == result.all[i]
                  IN  /\ inList(d, result.internal) <=> d.name \in Discovered \ {result.project}
                      /\ inList(d, result.internal) # inList(d, result.external)
            /\ Len(result.internal) + Len(result.external) = Len(result.all)
            /\ Len(result.all) =
                  Len(result.production) + Len(result.development) + Len(result.peer)

-----------------------------------------------------------------------------
(* getProjects of NxProjectDepsAnalyzer *)

\* the sources getProjects has to go through for a workspace, and the one
\* whose result it returns: the last of them
SourcesFor(ws) ==
    IF ws.show = "ok" THEN <<"nx show projects">>
    ELSE IF ws.workspaceJson \in {"empty", "projects"} THEN <<"nx show projects", "workspace.json">>
    ELSE IF ws.workspaceJson = "malformed"
    THEN <<"nx show projects", "workspace.json", "directories">>
    ELSE IF ws.nxJson \in {"empty", "projects"} THEN <<"nx show projects", "nx.json">>
    ELSE IF ws.nxJson = "malformed" THEN <<"nx show projects", "nx.json", "directories">>
    ELSE <<"nx show projects", "directories">>

\* the name a result carries for the source it came from
ByOf(source) == IF source = "directories" THEN "scanProjectDirectories" ELSE source

\* C26: getProjects goes through its sources strictly in order and stops at
\* the first that gives a result: the listing command; else workspace.json if
\* it exists, else nx.json if it exists; the directory scan only when neither
\* file exists or reading the chosen file throws. Nothing is read after a
\* source gave a result, even an empty one.
C26_FirstSourceWins ==
    /\ \E n \in 0..Len(SourcesFor(workspace)) : consulted = SubSeq(SourcesFor(workspace), 1, n)
    /\ projects # NotScanned =>
         /\ consulted = SourcesFor(workspace)
         /\ projects.by = ByOf(consulted[Len(consulted)])
         /\ discoverPc = "returned"

\* the listing command failed, workspace.json has no project map and nx.json
\* has one: the empty list of workspace.json was returned
C26_Witness ==
    /\ discoverPc = "returned"
    /\ workspace.show = "failed"
    /\ workspace.workspaceJson = "empty"
    /\ workspace.nxJson = "projects"
    /\ projects = [by |-> "workspace.json", list |-> <<>>]

-----------------------------------------------------------------------------
(* The groups of fetchLatestVersions *)

\* the k-th group of at most BatchSize consecutive dependencies
Group(k) ==
    {depList[i].name : i \in {i \in 1..Len(depList) : (i - 1) \div BatchSize = k - 1}}

\* what holds in every state: at most BatchSize lookups in flight, all of one
\* group; a pause only when another group follows; no lookup with skipLatest
GroupsInState ==
    /\ Cardinality(pending) <= BatchSize
    /\ pending \subseteq Group((batchStart \div BatchSize) + 1)
    /\ fetchPc = "pause" => (pending = {} /\ batchStart + BatchSize < Len(depList))
    /\ fetchPc = "skipped" => (pending = {} /\ success + failed = 0 /\ results = EmptyMap)

\* what holds of every step that starts lookups: nothing is in flight, the
\* lookups are the next whole group, and after the first group a pause has
\* just ended
GroupsInStep ==
    (pending' \ pending # {}) =>
        /\ pending = {}
        /\ fetchPc \in {"idle", "pause"}
        /\ fetchPc = "idle" => (pending' = Group(1) /\ batchStart' = 0)
        /\ fetchPc = "pause" =>
             /\ batchStart' = batchStart + BatchSize
             /\ pending' = Group((batchStart' \div BatchSize) + 1)
             /\ success + failed = batchStart'

\* C27: fetchLatestVersions issues its lookups in consecutive groups of at
\* most 5: never more than 5 in flight, no lookup of a group before every
\* lookup of the group before has settled, a pause between two groups and none
\* after the last, and no lookup at all with skipLatest.
C27_GroupsOfFive == []GroupsInState /\ [][GroupsInStep]_vars

\* the second group is in flight
C27_Witness ==
    /\ fetchPc = "batch"
    /\ batchStart = BatchSize
    /\ pending # {}
    /\ success + failed >= BatchSize

-----------------------------------------------------------------------------
(* Expiry of the result cache *)

\* request r was answered from the cache
Served(r) == calls[r].state = "done" /\ calls[r].fromCache

\* request r ran the analysis and has stored or is about to store its data
Producing(r) == calls[r] # NoCall /\ ~calls[r].fromCache /\ calls[r].data.kind # "throw"

\* every entry has the data and the start time of one request that computed
\* it, and a served value was computed by a request that started less than
\* cacheTTL before the served one
ExpiryInState ==
    /\ \A key \in DOMAIN cache :
          \E q \in Requests :
              /\ Computed(q) /\ calls[q].key = key
              /\ cache[key] = calls[q].data /\ cacheTime[key] = calls[q].now
    /\ \A r \in Requests :
          Served(r) =>
              \E q \in Requests :
                  /\ q # r /\ Computed(q) /\ calls[q].key = calls[r].key
                  /\ calls[q].data = calls[r].data
                  /\ calls[r].now - calls[q].now < CacheTTL
                  /\ calls[r].now >= calls[q].now

\* a request is served exactly when its key has an entry younger than
\* cacheTTL, and a request that ran the analysis replaces value and timestamp
ExpiryInStep ==
    \A r \in Requests :
        /\ (calls[r] = NoCall /\ calls'[r] # NoCall) =>
              LET key == calls'[r].key
                  young == key \in DOMAIN cache /\ now - cacheTime[key] < CacheTTL
              IN  /\ calls'[r].fromCache <=> young
                  /\ calls'[r].fromCache => calls'[r].data = cache[key]
                  /\ cache' = cache /\ cacheTime' = cacheTime
        /\ (calls[r].state = "await" /\ calls'[r].state = "done") =>
              /\ cache'[calls[r].key] = calls[r].data
              /\ cacheTime'[calls[r].key] = calls[r].now

\* C28: getCachedData serves a stored value without running the analysis
\* exactly when the key has an entry of age below cacheTTL; otherwise it
\* recomputes and replaces value and timestamp. The stored time is the start
\* time of the request that produced the value, so no request is served a
\* value whose producing request began cacheTTL or more earlier.
C28_ServedOnlyWithinTTL == []ExpiryInState /\ [][ExpiryInStep]_vars

\* an entry stored at time 0 has reached the age cacheTTL and a request for
\* its key computed afresh, after an earlier request was served from it
C28_Witness ==
    \E q \in Requests, r \in Requests, s \in Requests :
        /\ Computed(q) /\ Served(r) /\ Computed(s)
        /\ calls[q].key = calls[r].key /\ calls[r].key = calls[s].key
        /\ calls[q].now = 0 /\ calls[s].now = CacheTTL
        /\ cacheTime[calls[s].key] = CacheTTL

-----------------------------------------------------------------------------
(* A failing analysis and the result cache *)

\* the analysis of request r threw
Threw(r) == calls[r] # NoCall /\ calls[r].data.kind = "throw"

\* the two maps have the same keys, no entry holds an error, and a request
\* whose analysis threw has ended with that error, not with a cached value
FailureInState ==
    /\ DOMAIN cache = DOMAIN cacheTime
    /\ \A key \in DOMAIN cache : cache[key].kind # "throw"
    /\ \A r \in Requests : Threw(r) => (calls[r].state = "done" /\ ~calls[r].fromCache)

\* no step of a request whose analysis threw changes either map
FailureInStep ==
    \A r \in Requests :
        (calls'[r] # calls[r] /\ calls'[r].data.kind = "throw")
            => (cache' = cache /\ cacheTime' = cacheTime)

\* C29: when the analysis passed to getCachedData throws, the caller gets the
\* error and the cache is as it was: no entry is created or refreshed, an
\* expired entry of the key is neither served nor removed, the two maps keep
\* the same keys and the other entries are untouched.
C29_FailureLeavesCacheAlone == []FailureInState /\ [][FailureInStep]_vars

\* the analysis threw for a key that has an expired entry, and another key is
\* cached too
C29_Witness ==
    \E r \in Requests :
        /\ Threw(r)
        /\ calls[r].key \in DOMAIN cache
        /\ calls[r].now - cacheTime[calls[r].key] >= CacheTTL
        /\ DOMAIN cache # {calls[r].key}

-----------------------------------------------------------------------------
(* Free-text queries and the result cache *)

\* what findUnusedDependencies(arg) can return on the file tree as it is now
FreshUnused(arg) ==
    {FindUnusedDependencies(tree, unreadable, arg, failing) : failing \in SUBSET PkgNames}

\* a step that answers a free-text query
QueryStep == pc = "idle" /\ pc' # "idle" /\ request'.via = "query"

\* C30: a free-text query never reads or writes the result cache: the value
\* map and the timestamp map are unchanged by it, and the routed analysis is
\* computed on the file tree as it is, also when the key of the equivalent
\* endpoint has an unexpired entry.
C30_QueryBypassesCache ==
    [][QueryStep =>
          /\ cache' = cache
          /\ cacheTime' = cacheTime
          /\ route'.analyzer = "findUnusedDependencies" => result' \in FreshUnused(route'.arg)
      ]_vars

\* a query for unused dependencies was answered afresh while unused-all held
\* an unexpired value computed before the file tree changed
C30_Witness ==
    /\ pc = "done" /\ request.via = "query"
    /\ route = Route("findUnusedDependencies", NoArg)
    /\ Unexpired(cache, cacheTime, "unused-all", now)
    /\ cache["unused-all"] \notin FreshUnused(NoArg)
    /\ result \in FreshUnused(NoArg)

====
